---- MODULE Spec2Model ----
(***************************************************************************)
(* Verification model of the podcast episode download pipeline:            *)
(*   scripts/download.py                 PodcastDownloader and its ledger   *)
(*                                       metadata.csv                       *)
(*   scripts/podcast_batch_downloader.py PodcastBatchDownloader and its     *)
(*                                       DownloadTracker                    *)
(*                                                                         *)
(* Text values (titles, names, dates, links) are sequences of one-char     *)
(* strings.  A missing pandas value (NaN / None read from a CSV file) is   *)
(* the marker NaN.  Optional scalar values (time stamps, paths, messages)  *)
(* are sequences of length 0 (None) or 1, holding a sequence.              *)
(***************************************************************************)
EXTENDS Integers, Sequences, FiniteSets, TLC

VARIABLES
    metadata_df,    \* download.py: PodcastDownloader.metadata_df, the in-memory ledger
    metadata_file,  \* download.py: downloads/metadata.csv on disk
    clock,          \* the wall clock read by datetime.now()
    op,             \* the operation performed by the last step
    lastUpsert,     \* arguments of the last update_metadata call
    catalog,        \* master.csv as pandas reads it: a sequence of rows
    files,          \* the *.mp3 files of the output directory
    pc,             \* where the running process stands
    run,            \* number of the current run of the program
    rowIdx,         \* process_all: index of the catalog row at hand
    cur,            \* process_all: the download in flight
    rowlog,         \* what held when the row at hand was reached, what was done for it
    results,        \* podcast_batch_downloader.py: DownloadTracker.results
    existing_files, \* podcast_batch_downloader.py: DownloadTracker.existing_files
    status_file,    \* download_status.csv, transcription_status.csv: the file on disk
    temp_files,     \* podcast_batch_downloader.py: the files of the temp directory
    prog,           \* the program that runs
    resolver,       \* a call of a resolver (get_audio_url_with_retries, _search_episode)
    retry,          \* download.py: main from retry_failed_downloads on
    temp_dir,       \* the batch downloaders: whether the temp directory exists
    status_df,      \* transcribe.py: TranscriptionManager.status_df
    status_lock,    \* transcribe.py: the thread that holds status_lock, if any
    workers,        \* transcribe.py: the threads of the executor
    pending,        \* transcribe.py: the files submitted and not yet taken by a thread
    part_counter,   \* update_transcript_titles.py: part_counter of process_transcripts
    new_filenames   \* update_transcript_titles.py: the names generated in this run

ledgerVars == <<metadata_df, metadata_file, clock, op, lastUpsert>>
pipeVars == <<catalog, files, pc, run, rowIdx, cur, rowlog>>
batchVars == <<results, existing_files, status_file, temp_files>>
scriptVars == <<status_df, status_lock, workers, pending, part_counter, new_filenames>>
procVars == <<prog, scriptVars, resolver, retry>>
callVars == <<procVars, temp_dir>>

vars == <<metadata_df, metadata_file, clock, op, lastUpsert,
          catalog, files, pc, run, rowIdx, cur, rowlog,
          results, existing_files, status_file, temp_files,
          prog, resolver, retry, temp_dir,
          status_df, status_lock, workers, pending, part_counter, new_filenames>>

-----------------------------------------------------------------------------
(* Bounds of the model *)

MaxClock == 1       \* the clock takes the values 0..MaxClock
MaxLedger == 2      \* the ledger is explored up to this many rows
MaxRuns == 2        \* runs of the program on one output directory
NChunks == 2        \* chunks of an audio stream

-----------------------------------------------------------------------------
(* Values *)

NaN == <<"NaN">>
None == <<>>
Some(v) == <<v>>

\* pandas / numpy elementwise ==: a missing value equals nothing, not even itself
PdEq(a, b) == a # NaN /\ b # NaN /\ a = b

\* pd.isna
isna(v) == v = NaN

\* a cell of a catalog column that pandas reads as numbers: a float, not a string
Number == <<"number">>

Statuses == {"pending", "processing", "completed", "failed", "skipped"}

-----------------------------------------------------------------------------
(* Sequence helpers *)

Range(s) == {s[i] : i \in 1..Len(s)}

\* indices of the rows of df selected by a boolean mask
Matching(df, P(_)) == {i \in 1..Len(df) : P(df[i])}

Min(S) == CHOOSE x \in S : \A y \in S : x <= y

-----------------------------------------------------------------------------
(* Characters.  Non-ASCII characters are named tokens. *)

UpperChars == <<"A","B","C","D","E","F","G","H","I","J","K","L","M",
                "N","O","P","Q","R","S","T","U","V","W","X","Y","Z">>
LowerChars == <<"a","b","c","d","e","f","g","h","i","j","k","l","m",
                "n","o","p","q","r","s","t","u","v","w","x","y","z">>
DigitChars == <<"0","1","2","3","4","5","6","7","8","9">>

UpperSet == Range(UpperChars)
DigitSet == Range(DigitChars)
\* the regex class \w on str: letters, digits and the underscore
WordSet == Range(UpperChars) \cup Range(LowerChars) \cup Range(DigitChars) \cup {"_"}

IsDigit(c) == c \in DigitSet
IsSpace(c) == c \in {" ", "\t", "\n"}
IsWord(c) == c \in WordSet

\* str.lower, one character
lower_char(c) ==
    IF c \in UpperSet
    THEN LowerChars[CHOOSE i \in 1..26 : UpperChars[i] = c]
    ELSE c

\* unicodedata.normalize('NFKD', c).encode('ASCII', 'ignore').decode('utf-8'):
\* an accented letter keeps its base letter, any other non-ASCII character is dropped
ascii_fold_char(c) ==
    CASE c = "e_acute" -> <<"e">>
      [] c = "E_acute" -> <<"E">>
      [] c = "en_dash" -> <<>>
      [] OTHER -> <<c>>

RECURSIVE FlatMap(_, _)
FlatMap(F(_), s) == IF s = <<>> THEN <<>> ELSE F(Head(s)) \o FlatMap(F, Tail(s))

Map(F(_), s) == [i \in 1..Len(s) |-> F(s[i])]

\* re.sub(r'\s+', ' ', text): every run of white space becomes one blank
RECURSIVE collapse_spaces(_)
collapse_spaces(s) ==
    IF s = <<>> THEN <<>>
    ELSE IF IsSpace(Head(s))
         THEN IF Len(s) > 1 /\ IsSpace(s[2])
              THEN collapse_spaces(Tail(s))
              ELSE <<" ">> \o collapse_spaces(Tail(s))
         ELSE <<Head(s)>> \o collapse_spaces(Tail(s))

\* str.strip(): leading and trailing white space removed
RECURSIVE lstrip(_)
lstrip(s) == IF s # <<>> /\ IsSpace(Head(s)) THEN lstrip(Tail(s)) ELSE s
RECURSIVE rstrip(_)
rstrip(s) == IF s # <<>> /\ IsSpace(s[Len(s)]) THEN rstrip(SubSeq(s, 1, Len(s) - 1)) ELSE s
strip(s) == rstrip(lstrip(s))

Unknown == <<"u","n","k","n","o","w","n">>

\* the replacement of re.sub(r'[^\w\s-]', ' ', ...)
punct_to_space(c) == IF IsWord(c) \/ IsSpace(c) \/ c = "-" THEN c ELSE " "

\* PodcastDownloader.clean_string
clean_string(text) ==
    IF text = NaN \/ text = <<>>
    THEN Unknown
    ELSE strip(collapse_spaces(
             Map(punct_to_space, Map(lower_char, FlatMap(ascii_fold_char, text)))))

-----------------------------------------------------------------------------
(* Dates: datetime.strptime / strftime for the two formats the code uses *)

DigitVal(c) == (CHOOSE i \in 1..10 : DigitChars[i] = c) - 1

RECURSIVE ToInt(_)
ToInt(s) == IF s = <<>> THEN 0 ELSE 10 * ToInt(SubSeq(s, 1, Len(s) - 1)) + DigitVal(s[Len(s)])

AllDigits(s) == \A i \in 1..Len(s) : IsDigit(s[i])

\* s from position i on
From(s, i) == SubSeq(s, i, Len(s))

\* %m is the regex 1[0-2]|0[1-9]|[1-9]: the lengths it can match at the start of s,
\* in the order the regex engine tries them
MonthAlts(s) ==
    (IF Len(s) >= 2 /\ ((s[1] = "1" /\ s[2] \in {"0","1","2"})
                        \/ (s[1] = "0" /\ IsDigit(s[2]) /\ s[2] # "0"))
     THEN <<2>> ELSE <<>>)
    \o (IF Len(s) >= 1 /\ IsDigit(s[1]) /\ s[1] # "0" THEN <<1>> ELSE <<>>)

\* %d is the regex 3[01]|[12]\d|0[1-9]|[1-9]| [1-9]
DayAlts(s) ==
    (IF Len(s) >= 2 /\ ((s[1] = "3" /\ s[2] \in {"0","1"})
                        \/ (s[1] \in {"1","2"} /\ IsDigit(s[2]))
                        \/ (s[1] = "0" /\ IsDigit(s[2]) /\ s[2] # "0"))
     THEN <<2>> ELSE <<>>)
    \o (IF Len(s) >= 1 /\ IsDigit(s[1]) /\ s[1] # "0" THEN <<1>> ELSE <<>>)
    \o (IF Len(s) >= 2 /\ s[1] = " " /\ IsDigit(s[2]) /\ s[2] # "0" THEN <<2>> ELSE <<>>)

\* %Y is the regex \d\d\d\d
YearLen(s) == IF Len(s) >= 4 /\ AllDigits(SubSeq(s, 1, 4)) THEN 4 ELSE 0

IsLeap(y) == (y % 4 = 0 /\ y % 100 # 0) \/ y % 400 = 0

DaysInMonth(y, m) ==
    IF m = 2 THEN (IF IsLeap(y) THEN 29 ELSE 28)
    ELSE IF m \in {4, 6, 9, 11} THEN 30 ELSE 31

NoDate == [ok |-> FALSE, y |-> 0, m |-> 0, d |-> 0]

\* the date of the matched fields, or ValueError (NoDate): text left over after the
\* match ("unconverted data remains") or a day that the month does not have
MakeDate(ys, ms, ds, rest) ==
    LET y == ToInt(ys)
        m == ToInt(ms)
        d == ToInt(lstrip(ds))
    IN  IF rest = <<>> /\ y >= 1 /\ d <= DaysInMonth(y, m)
        THEN [ok |-> TRUE, y |-> y, m |-> m, d |-> d]
        ELSE NoDate

\* datetime.strptime(s, '%m/%d/%Y'): the first way (in the regex engine's order) to
\* match month "/" day "/" year at the start of s
strptime_mdY(s) ==
    LET cands == {c \in (1..2) \X (1..3) :
                    /\ c[1] <= Len(MonthAlts(s))
                    /\ LET ml == MonthAlts(s)[c[1]]
                           r1 == From(s, ml + 1)
                       IN  /\ r1 # <<>> /\ Head(r1) = "/"
                           /\ c[2] <= Len(DayAlts(Tail(r1)))
                           /\ LET dl == DayAlts(Tail(r1))[c[2]]
                                  r2 == From(Tail(r1), dl + 1)
                              IN  /\ r2 # <<>> /\ Head(r2) = "/"
                                  /\ YearLen(Tail(r2)) = 4}
    IN  IF cands = {} THEN NoDate
        ELSE LET c == CHOOSE x \in cands :
                        \A z \in cands : x[1] < z[1] \/ (x[1] = z[1] /\ x[2] <= z[2])
                 ml == MonthAlts(s)[c[1]]
                 r1 == From(s, ml + 2)
                 dl == DayAlts(r1)[c[2]]
                 r2 == From(r1, dl + 2)
             IN  MakeDate(SubSeq(r2, 1, 4), SubSeq(s, 1, ml), SubSeq(r1, 1, dl), From(r2, 5))

\* datetime.strptime(s, '%Y%m%d')
strptime_Ymd(s) ==
    IF YearLen(s) # 4 THEN NoDate
    ELSE LET r0 == From(s, 5)
             cands == {c \in (1..2) \X (1..3) :
                         /\ c[1] <= Len(MonthAlts(r0))
                         /\ c[2] <= Len(DayAlts(From(r0, MonthAlts(r0)[c[1]] + 1)))}
         IN  IF cands = {} THEN NoDate
             ELSE LET c == CHOOSE x \in cands :
                             \A z \in cands : x[1] < z[1] \/ (x[1] = z[1] /\ x[2] <= z[2])
                      ml == MonthAlts(r0)[c[1]]
                      r1 == From(r0, ml + 1)
                      dl == DayAlts(r1)[c[2]]
                  IN  MakeDate(SubSeq(s, 1, 4), SubSeq(r0, 1, ml), SubSeq(r1, 1, dl),
                               From(r1, dl + 1))

Digit(n) == DigitChars[n + 1]

\* decimal digits of n without padding
RECURSIVE ToDigits(_)
ToDigits(n) == IF n < 10 THEN <<Digit(n)>> ELSE ToDigits(n \div 10) \o <<Digit(n % 10)>>

\* date.strftime('%Y%m%d'): the C library pads month and day to two digits and prints
\* the year as it is (no padding of a year below 1000)
strftime_Ymd(dt) ==
    ToDigits(dt.y) \o <<Digit(dt.m \div 10), Digit(dt.m % 10),
                        Digit(dt.d \div 10), Digit(dt.d % 10)>>

\* datetime.now() as a date: the clock counts days from 4 November 2026
now_date(t) == [ok |-> TRUE, y |-> 2026, m |-> 11, d |-> 4 + t]

\* the date segment of PodcastDownloader.format_filename
date_clean(date_str, t) ==
    LET parsed == IF "/" \in Range(date_str) THEN strptime_mdY(date_str)
                  ELSE strptime_Ymd(date_str)
    IN  IF isna(date_str) \/ ~parsed.ok
        THEN strftime_Ymd(now_date(t))
        ELSE strftime_Ymd(parsed)

ApplePodcasts == <<"a","p","p","l","e","p","o","d","c","a","s","t","s">>

\* PodcastDownloader.format_filename
format_filename(source, candidate_name, podcast_title, date_str, t) ==
    source \o <<"_">> \o clean_string(candidate_name) \o <<"_">>
           \o clean_string(podcast_title) \o <<"_">> \o date_clean(date_str, t)

-----------------------------------------------------------------------------
(* The ledger of download.py: metadata_df and downloads/metadata.csv *)

\* datetime.now().isoformat() at clock reading t
isoformat(t) == <<t>>

\* the boolean mask of update_metadata: rows with the episode title and show title of row
identity_mask(df, row) ==
    Matching(df, LAMBDA r : /\ PdEq(r.episode_title, row.Episode_title)
                            /\ PdEq(r.podcast_title, row.Podcast_title))

\* the record update_metadata builds from its arguments at time t
make_record(row, metadata, download_path, status, error_message, t) ==
    LET base == [candidate_name |-> row.Candidate_name,
                 podcast_title  |-> row.Podcast_title,
                 episode_title  |-> row.Episode_title,
                 date_posted    |-> row.Date_posted,
                 status         |-> status,
                 error_message  |-> error_message,
                 downloaded_at  |-> IF download_path # None THEN Some(isoformat(t)) ELSE None,
                 download_path  |-> download_path,
                 original_url   |-> None,
                 audio_urls     |-> None,
                 title          |-> None,
                 description    |-> None,
                 duration       |-> None,
                 extracted_at   |-> None]
    IN  IF metadata = None
        THEN base
        ELSE [base EXCEPT !.original_url = metadata[1].original_url,
                          !.audio_urls   = metadata[1].audio_urls,
                          !.title        = metadata[1].title,
                          !.description  = metadata[1].description,
                          !.duration     = metadata[1].duration,
                          !.extracted_at = metadata[1].extracted_at]

\* a variant of the overwrite rule without the guard
may_overwrite_unguarded(status, existing_status) == TRUE

\* the overwrite rule of update_metadata for an identity that has a row
may_overwrite(status, existing_status) ==
    status = "completed" \/ existing_status = "failed"

\* PodcastDownloader.update_metadata, the in-memory part: the ledger after the upsert
update_metadata(df, row, metadata, download_path, status, error_message, t) ==
    LET record == make_record(row, metadata, download_path, status, error_message, t)
        mask == identity_mask(df, row)
    IN  IF mask # {}
        THEN LET idx == Min(mask)
             IN  IF may_overwrite(status, df[idx].status)
                 THEN [df EXCEPT ![idx] = record]
                 ELSE df
        ELSE Append(df, record)

\* a cell as DataFrame.to_csv writes it: a missing value and an empty string both
\* give an empty field
csv_text(v) == IF v = NaN THEN <<>> ELSE v
csv_opt(v) == IF v = None THEN <<>> ELSE IF v[1] = <<>> THEN <<>> ELSE v

\* an empty field as pandas.read_csv reads it back
read_text(c) == IF c = <<>> THEN NaN ELSE c
read_opt(c) == IF c = <<>> THEN None ELSE c

to_csv_row(r) ==
    [candidate_name |-> csv_text(r.candidate_name),
     podcast_title  |-> csv_text(r.podcast_title),
     episode_title  |-> csv_text(r.episode_title),
     date_posted    |-> csv_text(r.date_posted),
     status         |-> r.status,
     error_message  |-> csv_opt(r.error_message),
     downloaded_at  |-> csv_opt(r.downloaded_at),
     download_path  |-> csv_opt(r.download_path),
     original_url   |-> csv_opt(r.original_url),
     audio_urls     |-> csv_opt(r.audio_urls),
     title          |-> csv_opt(r.title),
     description    |-> csv_opt(r.description),
     duration       |-> csv_opt(r.duration),
     extracted_at   |-> csv_opt(r.extracted_at)]

read_csv_row(r) ==
    [candidate_name |-> read_text(r.candidate_name),
     podcast_title  |-> read_text(r.podcast_title),
     episode_title  |-> read_text(r.episode_title),
     date_posted    |-> read_text(r.date_posted),
     status         |-> r.status,
     error_message  |-> read_opt(r.error_message),
     downloaded_at  |-> read_opt(r.downloaded_at),
     download_path  |-> read_opt(r.download_path),
     original_url   |-> read_opt(r.original_url),
     audio_urls     |-> read_opt(r.audio_urls),
     title          |-> read_opt(r.title),
     description    |-> read_opt(r.description),
     duration       |-> read_opt(r.duration),
     extracted_at   |-> read_opt(r.extracted_at)]

\* a file on disk: absent, or present with its rows; readable is FALSE for a file that
\* read_csv cannot parse (a write that failed after the file was truncated)
NoFile == [exists |-> FALSE, readable |-> FALSE, rows |-> <<>>]
Truncated == [exists |-> TRUE, readable |-> FALSE, rows |-> <<>>]

IoOutcomes == {"ok", "open_failed", "write_failed"}

\* self.metadata_df.to_csv(self.metadata_file, index=False) with the outcome io of the
\* file system: the file after the call
to_csv(df, file, io) ==
    CASE io = "ok" -> [exists |-> TRUE, readable |-> TRUE, rows |-> Map(to_csv_row, df)]
      [] io = "open_failed" -> file
      [] io = "write_failed" -> Truncated

\* PodcastDownloader.__init__ and _load_existing_metadata: the ledger of a new process
load_existing_metadata(file) ==
    IF file.exists /\ file.readable THEN Map(read_csv_row, file.rows) ELSE <<>>

-----------------------------------------------------------------------------
(* Catalog rows (master.csv as pandas reads it) and fetched pages *)

Txt_Al == <<"A","l">>
Txt_Pod == <<"P","o","d">>
Date_ok == <<"3","/","5","/","2","0","2","4">>

\* two episodes of one candidate, show and day, an episode of a row without show title,
\* and a row without episode title
RowA == [Candidate_name |-> Txt_Al, Podcast_title |-> Txt_Pod,
         Episode_title |-> <<"E","p"," ","1">>, Date_posted |-> Date_ok,
         Hyperlink |-> <<"https://h1">>]
RowB == [Candidate_name |-> Txt_Al, Podcast_title |-> Txt_Pod,
         Episode_title |-> <<"E","p"," ","2">>, Date_posted |-> Date_ok,
         Hyperlink |-> <<"https://h2">>]
RowC == [Candidate_name |-> Txt_Al, Podcast_title |-> NaN,
         Episode_title |-> <<"E","p"," ","3">>, Date_posted |-> NaN,
         Hyperlink |-> NaN]
RowD == [Candidate_name |-> Txt_Al, Podcast_title |-> Txt_Pod,
         Episode_title |-> NaN, Date_posted |-> Date_ok,
         Hyperlink |-> <<"https://h4">>]

\* json.dumps of a list of URLs
json_dumps(urls) == <<"[">> \o urls \o <<"]">>

\* the text of a fetched page, as far as the extraction patterns see it: the audio URLs
\* the patterns find in it and the title, description and duration fields
PageWithAudio == [audio |-> <<"https://cdn/a.mp3">>, title |-> Some(<<"T">>),
                  description |-> None, duration |-> Some(<<>>)]
PageNoAudio == [audio |-> <<>>, title |-> Some(<<"T">>),
                description |-> None, duration |-> None]

\* url.lower() == 'unavailable'
Unavailable == <<"u","n","a","v","a","i","l","a","b","l","e">>
no_valid_url(url) == url = <<>> \/ isna(url) \/ Map(lower_char, url) = Unavailable

\* PodcastDownloader.extract_metadata at time t: None, or Some(the metadata dict).
\* The loop "for url in matches" rebinds url, so with audio URLs on the page
\* 'original_url' is the last match, not the URL the page was fetched from
extract_metadata(url, content, t) ==
    IF no_valid_url(url)
    THEN None
    ELSE Some([original_url |-> IF content.audio = <<>> THEN Some(url)
                                ELSE Some(<<content.audio[Len(content.audio)]>>),
               audio_urls   |-> Some(json_dumps(content.audio)),
               title        |-> content.title,
               description  |-> content.description,
               duration     |-> content.duration,
               extracted_at |-> Some(isoformat(t))])

Mp3 == <<".mp3">>

\* mp3_path of process_all and retry_failed_downloads: output_dir / f"{filename}.mp3"
mp3_path(row, t) ==
    format_filename(ApplePodcasts, row.Candidate_name, row.Podcast_title,
                    row.Date_posted, t) \o Mp3

ErrDownload == Some(<<"Download error">>)
ErrNoAudio == Some(<<"No audio URL found">>)

-----------------------------------------------------------------------------
(* Specification SpecUpsert: arbitrary sequences of update_metadata calls, with
   restarts of the process in between *)

UpsertRows == {RowA, RowC}

\* the argument lists the callers use (process_all, retry_failed_downloads) and the
\* call with the default arguments, whose status 'pending' is not terminal; the
\* metadata passed was extracted when the process started
CallShapes == {"completed", "failed_download", "failed_no_audio", "pending"}

CallArgs(shape, row, t) ==
    LET md == extract_metadata(<<"https://h1">>, PageWithAudio, 0)
    IN  CASE shape = "completed" ->
               [metadata |-> md, download_path |-> Some(mp3_path(row, t)),
                status |-> "completed", error_message |-> None]
          [] shape = "failed_download" ->
               [metadata |-> md, download_path |-> None,
                status |-> "failed", error_message |-> ErrDownload]
          [] shape = "failed_no_audio" ->
               [metadata |-> None, download_path |-> None,
                status |-> "failed", error_message |-> ErrNoAudio]
          [] shape = "pending" ->
               [metadata |-> None, download_path |-> None,
                status |-> "pending", error_message |-> None]

NoCall == [row |-> RowD, metadata |-> None, download_path |-> None,
           status |-> "none", error_message |-> None]

\* no download in flight
\* no resolver call, no retry phase
NoRes == [pc |-> "idle"]
NoRetry == [pc |-> "idle"]

\* no transcription and no renaming of transcripts
NoScripts ==
    /\ status_df = <<>> /\ status_lock = None /\ workers = <<>> /\ pending = <<>>
    /\ part_counter = <<>> /\ new_filenames = <<>>

\* download_status.csv before its first save
NoStatusFile == [exists |-> FALSE, rows |-> <<>>]

NoCur == [path |-> <<>>, audio_url |-> None, metadata |-> None]
NoLog == [idx |-> 0, file_present |-> FALSE, ledger_completed |-> FALSE,
          resolved |-> FALSE, requested |-> FALSE]

InitUpsert ==
    /\ catalog = <<>> /\ files = {} /\ pc = "idle" /\ run = 1 /\ rowIdx = 0
    /\ cur = NoCur /\ rowlog = NoLog
    /\ metadata_df = <<>>
    /\ metadata_file = NoFile
    /\ clock = 0
    /\ op = "init"
    /\ lastUpsert = NoCall
    /\ results = <<>> /\ existing_files = {}
    /\ status_file = NoStatusFile /\ temp_files = {}
    /\ prog = "upsert" /\ resolver = NoRes /\ retry = NoRetry
    /\ temp_dir = FALSE
    /\ NoScripts

\* one call of update_metadata: the clock is read at t and the file is written
Upsert ==
    \E row \in UpsertRows, shape \in CallShapes, t \in clock..MaxClock :
      \E a \in {CallArgs(shape, row, clock)} :
        \E df2 \in {update_metadata(metadata_df, row, a.metadata, a.download_path,
                                    a.status, a.error_message, t)} :
            /\ Len(df2) <= MaxLedger
            /\ metadata_df' = df2
            /\ metadata_file' = to_csv(df2, metadata_file, "ok")
            /\ clock' = t
            /\ op' = "upsert"
            /\ UNCHANGED callVars
            /\ lastUpsert' = [row |-> row, metadata |-> a.metadata,
                              download_path |-> a.download_path, status |-> a.status,
                              error_message |-> a.error_message]
            /\ UNCHANGED <<pipeVars, batchVars>>

\* the process ends and a new one starts: PodcastDownloader.__init__
Restart ==
    /\ op # "load"
    /\ metadata_df' = load_existing_metadata(metadata_file)
    /\ op' = "load"
    /\ UNCHANGED callVars
    /\ UNCHANGED <<metadata_file, clock, lastUpsert>>
    /\ UNCHANGED <<pipeVars, batchVars>>

NextUpsert == Upsert \/ Restart

SpecUpsert == InitUpsert /\ [][NextUpsert]_vars

-----------------------------------------------------------------------------
(* Properties of the ledger under SpecUpsert *)

\* the identity (episode title, show title) of a ledger row is that of a catalog row
SameIdentity(r, row) ==
    r.episode_title = row.Episode_title /\ r.podcast_title = row.Podcast_title

RowsOf(df, row) == {i \in 1..Len(df) : SameIdentity(df[i], row)}

\* C1: an upsert with status 'failed' leaves every ledger row of its identity that has
\* status 'completed' unchanged, status and all other fields.
C1_FailedKeepsCompleted ==
    [][ (op' = "upsert" /\ lastUpsert'.status = "failed") =>
          \A i \in RowsOf(metadata_df, lastUpsert'.row) :
              metadata_df[i].status = "completed" =>
                  (i <= Len(metadata_df') /\ metadata_df'[i] = metadata_df[i]) ]_vars

\* a 'failed' upsert was made for an identity whose row is 'completed'
C1_Witness ==
    /\ op = "upsert"
    /\ lastUpsert.status = "failed"
    /\ \E i \in RowsOf(metadata_df, lastUpsert.row) : metadata_df[i].status = "completed"

\* C5: the ledger holds at most one row per identity (episode title, show title).
C5_OneRowPerIdentity ==
    \A i, j \in 1..Len(metadata_df) :
        (/\ metadata_df[i].episode_title = metadata_df[j].episode_title
         /\ metadata_df[i].podcast_title = metadata_df[j].podcast_title) => i = j

\* C6: a second upsert with the same identity, status 'completed' and the same
\* arguments leaves one row for the identity and the ledger as the first upsert left it.
C6_UpsertIdempotent ==
    [][ (/\ op = "upsert" /\ op' = "upsert"
         /\ lastUpsert' = lastUpsert
         /\ lastUpsert.status = "completed") =>
          (/\ metadata_df' = metadata_df
           /\ Cardinality(RowsOf(metadata_df', lastUpsert.row)) = 1) ]_vars

\* C7: after an upsert with status 'completed', every row of that identity has status
\* 'completed' and the fields of that write.
C7_CompletedReplaces ==
    (op = "upsert" /\ lastUpsert.status = "completed") =>
        \A i \in RowsOf(metadata_df, lastUpsert.row) :
            metadata_df[i] = make_record(lastUpsert.row, lastUpsert.metadata,
                                         lastUpsert.download_path, "completed",
                                         lastUpsert.error_message, clock)

-----------------------------------------------------------------------------
(* Specification SpecPipeline: runs of download.py's process_all over one catalog
   and one output directory *)

RowE == [Candidate_name |-> Txt_Al, Podcast_title |-> Txt_Pod,
         Episode_title |-> <<"E","p"," ","5">>, Date_posted |-> NaN,
         Hyperlink |-> <<"https://h5">>]

\* a row of a catalog whose Hyperlink column holds numbers
RowF == [Candidate_name |-> Txt_Al, Podcast_title |-> Txt_Pod,
         Episode_title |-> <<"E","p"," ","6">>, Date_posted |-> Date_ok,
         Hyperlink |-> Number]

Catalogs == {<<RowA, RowB>>, <<RowD, RowC>>, <<RowE>>, <<RowF, RowC>>}

\* mp3_path.exists()
Exists(fs, path) == \E f \in fs : f.name = path

\* open(mp3_path, 'wb'): the file is created, or truncated when it is there
open_wb(fs, path, url) ==
    {f \in fs : f.name # path} \cup {[name |-> path, src |-> url, written |-> 0]}

\* f.write(chunk)
write_chunk(fs, path) ==
    {IF f.name = path THEN [f EXCEPT !.written = @ + 1] ELSE f : f \in fs}

\* the audio URL the page behind hyperlink h links to
CdnUrl(h) ==
    CASE h = <<"https://h1">> -> "https://cdn/1.mp3"
      [] h = <<"https://h2">> -> "https://cdn/2.mp3"
      [] OTHER -> "https://cdn/a.mp3"

\* what self.session.get(h) can give: "error" for an exception (no URL to fetch, or a
\* transport error), else the page served; its status code is not looked at
FetchOutcomes(h) ==
    IF no_valid_url(h) \/ h = Number
    THEN {"error"}
    ELSE {"error", "audio", "no_audio"}

ServedPage(h, outcome) ==
    IF outcome = "audio"
    THEN [PageWithAudio EXCEPT !.audio = <<CdnUrl(h)>>]
    ELSE PageNoAudio

\* a first test without pd.isna: url.lower() would be reached for NaN too
resolve_raises_nan(url) == url = Number \/ url = NaN
\* get_audio_url_with_retries, its first test: url.lower() of a URL that is a float
\* raises AttributeError, outside every try of the function
resolve_raises(url) == url = Number

\* PodcastDownloader.get_audio_url_with_retries(url, episode_title) seen from its
\* caller: the results it can return, <<audio_url, metadata>>; (None, None) when there
\* is no valid URL, when every attempt missed, or when every attempt failed
resolve_outcomes(url, t) ==
    IF resolve_raises(url)
    THEN {}
    ELSE IF no_valid_url(url)
    THEN {<<None, None>>}
    ELSE {<<None, None>>,
          <<Some(<<ServedPage(url, "audio").audio[1]>>),
            extract_metadata(url, ServedPage(url, "audio"), t)>>}

\* the state of the row at hand at the moment process_all reaches it
Reached(row, path) ==
    [idx |-> rowIdx,
     file_present |-> Exists(files, path),
     ledger_completed |-> \E i \in 1..Len(metadata_df) :
                             /\ metadata_df[i].episode_title = row.Episode_title
                             /\ metadata_df[i].podcast_title = row.Podcast_title
                             /\ metadata_df[i].status = "completed",
     resolved |-> FALSE, requested |-> FALSE]

\* update_metadata as called from the pipeline: ledger and file are written, the call
\* is recorded
DoUpsert(row, metadata, download_path, status, error_message, io) ==
    \E df2 \in {update_metadata(metadata_df, row, metadata, download_path,
                                status, error_message, clock)} :
        /\ metadata_df' = df2
        /\ metadata_file' = to_csv(df2, metadata_file, io)
        /\ lastUpsert' = [row |-> row, metadata |-> metadata,
                          download_path |-> download_path, status |-> status,
                          error_message |-> error_message]

InitPipeline ==
    /\ catalog \in Catalogs
    /\ files = {}
    /\ pc = "row" /\ run = 1 /\ rowIdx = 1
    /\ cur = NoCur /\ rowlog = NoLog
    /\ metadata_df = <<>>
    /\ metadata_file = NoFile
    /\ clock = 0
    /\ op = "init"
    /\ lastUpsert = NoCall
    /\ results = <<>> /\ existing_files = {}
    /\ status_file = NoStatusFile /\ temp_files = {}
    /\ prog = "download" /\ resolver = NoRes /\ retry = NoRetry
    /\ temp_dir = FALSE
    /\ NoScripts

AtRow == prog = "download" /\ pc = "row" /\ rowIdx <= Len(catalog)

\* process_all, a row without episode title: continue
SkipRow ==
    /\ AtRow
    /\ isna(catalog[rowIdx].Episode_title)
    /\ rowIdx' = rowIdx + 1
    /\ op' = "skip"
    /\ UNCHANGED callVars
    /\ UNCHANGED <<metadata_df, metadata_file, clock, lastUpsert,
                   catalog, files, pc, run, cur, rowlog, batchVars>>

\* process_all, the output file exists: the hyperlink is fetched for its metadata and
\* the row is upserted as 'completed'; an exception of the fetch is logged
RefreshExisting ==
    /\ AtRow
    /\ ~isna(catalog[rowIdx].Episode_title)
    /\ \E path \in {mp3_path(catalog[rowIdx], clock)} :
        /\ Exists(files, path)
        /\ rowlog' = Reached(catalog[rowIdx], path)
        /\ \E got \in FetchOutcomes(catalog[rowIdx].Hyperlink) :
            IF got = "error"
            THEN UNCHANGED <<metadata_df, metadata_file, lastUpsert>>
            ELSE \E io \in IoOutcomes :
                    DoUpsert(catalog[rowIdx],
                             extract_metadata(catalog[rowIdx].Hyperlink,
                                              ServedPage(catalog[rowIdx].Hyperlink, got),
                                              clock),
                             Some(path), "completed", None, io)
    /\ rowIdx' = rowIdx + 1
    /\ op' = "refresh"
    /\ UNCHANGED callVars
    /\ UNCHANGED <<clock, catalog, files, pc, run, cur, batchVars>>

\* a test that lets the download start whatever the resolver returned
has_audio_url_always(audio_url) == TRUE

\* process_all and _download_episode: if audio_url
has_audio_url(audio_url) == audio_url # None

\* process_all, no output file and get_audio_url_with_retries returns no URL:
\* the row is upserted as 'failed'
ResolveMiss ==
    /\ AtRow
    /\ ~isna(catalog[rowIdx].Episode_title)
    /\ \E path \in {mp3_path(catalog[rowIdx], clock)} :
        /\ ~Exists(files, path)
        /\ rowlog' = [Reached(catalog[rowIdx], path) EXCEPT !.resolved = TRUE]
    /\ <<None, None>> \in resolve_outcomes(catalog[rowIdx].Hyperlink, clock)
    /\ \E io \in IoOutcomes :
          DoUpsert(catalog[rowIdx], None, None, "failed", ErrNoAudio, io)
    /\ rowIdx' = rowIdx + 1
    /\ op' = "miss"
    /\ UNCHANGED callVars
    /\ UNCHANGED <<clock, catalog, files, pc, run, cur, batchVars>>

\* where process_all stands after the except clause of its row: continue
row_except_stops == "done"
row_except == "row"

\* process_all, no output file and get_audio_url_with_retries raises: the except
\* clause of the row logs 'Error processing row', nothing is written to the ledger
RowRaises ==
    /\ AtRow
    /\ ~isna(catalog[rowIdx].Episode_title)
    /\ \E path \in {mp3_path(catalog[rowIdx], clock)} :
        /\ ~Exists(files, path)
        /\ rowlog' = [Reached(catalog[rowIdx], path) EXCEPT !.resolved = TRUE]
    /\ resolve_raises(catalog[rowIdx].Hyperlink)
    /\ pc' = row_except
    /\ rowIdx' = rowIdx + 1
    /\ op' = "row_error"
    /\ UNCHANGED callVars
    /\ UNCHANGED <<metadata_df, metadata_file, clock, lastUpsert,
                   catalog, files, run, cur, batchVars>>

\* process_all, no output file and a URL is resolved, but the request for the audio
\* raises (transport error, or raise_for_status on a status outside 2xx)
RequestFails ==
    /\ AtRow
    /\ ~isna(catalog[rowIdx].Episode_title)
    /\ \E path \in {mp3_path(catalog[rowIdx], clock)} :
        /\ ~Exists(files, path)
        /\ rowlog' = [Reached(catalog[rowIdx], path) EXCEPT !.resolved = TRUE,
                                                            !.requested = TRUE]
    /\ \E res \in resolve_outcomes(catalog[rowIdx].Hyperlink, clock) :
        /\ has_audio_url(res[1])
        /\ \E io \in IoOutcomes :
              DoUpsert(catalog[rowIdx], res[2], None, "failed", ErrDownload, io)
    /\ rowIdx' = rowIdx + 1
    /\ op' = "request_failed"
    /\ UNCHANGED callVars
    /\ UNCHANGED <<clock, catalog, files, pc, run, cur, batchVars>>

\* process_all, no output file, a URL is resolved and the request answers 2xx:
\* open(mp3_path, 'wb')
StartStream ==
    /\ AtRow
    /\ ~isna(catalog[rowIdx].Episode_title)
    /\ \E path \in {mp3_path(catalog[rowIdx], clock)} :
        /\ ~Exists(files, path)
        /\ rowlog' = [Reached(catalog[rowIdx], path) EXCEPT !.resolved = TRUE,
                                                            !.requested = TRUE]
        /\ \E res \in resolve_outcomes(catalog[rowIdx].Hyperlink, clock) :
            /\ has_audio_url(res[1])
            /\ cur' = [path |-> path, audio_url |-> res[1], metadata |-> res[2]]
            /\ files' = open_wb(files, path, res[1])
    /\ pc' = "stream"
    /\ op' = "open"
    /\ UNCHANGED callVars
    /\ UNCHANGED <<metadata_df, metadata_file, clock, lastUpsert, catalog, run, rowIdx, batchVars>>

Written == (CHOOSE f \in files : f.name = cur.path).written

\* the loop over response.iter_content: one chunk is written
WriteChunk ==
    /\ prog = "download"
    /\ pc = "stream"
    /\ Written < NChunks
    /\ files' = write_chunk(files, cur.path)
    /\ op' = "chunk"
    /\ UNCHANGED callVars
    /\ UNCHANGED <<metadata_df, metadata_file, clock, lastUpsert,
                   catalog, pc, run, rowIdx, cur, rowlog, batchVars>>

\* the stream raises before its last chunk: the row is upserted as 'failed'
StreamError ==
    /\ prog = "download"
    /\ pc = "stream"
    /\ Written < NChunks
    /\ \E io \in IoOutcomes :
          DoUpsert(catalog[rowIdx], cur.metadata, None, "failed", ErrDownload, io)
    /\ pc' = "row"
    /\ rowIdx' = rowIdx + 1
    /\ cur' = NoCur
    /\ op' = "stream_error"
    /\ UNCHANGED callVars
    /\ UNCHANGED <<clock, catalog, files, run, rowlog, batchVars>>

\* the stream ends: the file is closed and the row is upserted as 'completed'
FinishStream ==
    /\ prog = "download"
    /\ pc = "stream"
    /\ Written = NChunks
    /\ \E io \in IoOutcomes :
          DoUpsert(catalog[rowIdx], cur.metadata, Some(cur.path), "completed", None, io)
    /\ pc' = "row"
    /\ rowIdx' = rowIdx + 1
    /\ cur' = NoCur
    /\ op' = "downloaded"
    /\ UNCHANGED callVars
    /\ UNCHANGED <<clock, catalog, files, run, rowlog, batchVars>>

\* the loop over the catalog ends
EndRun ==
    /\ prog = "download"
    /\ pc = "row"
    /\ rowIdx > Len(catalog)
    /\ pc' = "done"
    /\ op' = "end"
    /\ UNCHANGED callVars
    /\ UNCHANGED <<metadata_df, metadata_file, clock, lastUpsert,
                   catalog, files, run, rowIdx, cur, rowlog, batchVars>>

\* the process is killed
Interrupt ==
    /\ prog = "download"
    /\ pc \in {"row", "stream"}
    /\ pc' = "dead"
    /\ cur' = NoCur
    /\ op' = "kill"
    /\ UNCHANGED callVars
    /\ UNCHANGED <<metadata_df, metadata_file, clock, lastUpsert,
                   catalog, files, run, rowIdx, rowlog, batchVars>>

\* the program is started again: PodcastDownloader.__init__, then process_all
NewRun ==
    /\ prog = "download"
    /\ pc \in {"done", "dead"}
    /\ run < MaxRuns
    /\ run' = run + 1
    /\ metadata_df' = load_existing_metadata(metadata_file)
    /\ pc' = "row"
    /\ rowIdx' = 1
    /\ rowlog' = NoLog
    /\ op' = "start"
    /\ UNCHANGED callVars
    /\ UNCHANGED <<metadata_file, clock, lastUpsert, catalog, files, cur, batchVars>>

\* between two runs somebody removes a file from the output directory
EnvRemove ==
    /\ pc \in {"done", "dead"}
    /\ run < MaxRuns
    /\ \E f \in files : files' = files \ {f}
    /\ op' = "remove"
    /\ UNCHANGED callVars
    /\ UNCHANGED <<metadata_df, metadata_file, clock, lastUpsert,
                   catalog, pc, run, rowIdx, cur, rowlog, batchVars>>

\* time passes
Tick ==
    /\ clock < MaxClock
    /\ clock' = clock + 1
    /\ op' = "tick"
    /\ UNCHANGED callVars
    /\ UNCHANGED <<metadata_df, metadata_file, lastUpsert,
                   catalog, files, pc, run, rowIdx, cur, rowlog, batchVars>>

NextPipeline ==
    \/ SkipRow \/ RefreshExisting \/ ResolveMiss \/ RowRaises \/ RequestFails
    \/ StartStream
    \/ WriteChunk \/ StreamError \/ FinishStream \/ EndRun
    \/ Interrupt \/ NewRun \/ EnvRemove \/ Tick

SpecPipeline == InitPipeline /\ [][NextPipeline]_vars

-----------------------------------------------------------------------------
(* Specification SpecBatch: runs of podcast_batch_downloader.py's process_all over
   one catalog and one output directory *)

\* str.lower() of one character
str_lower_char(c) == IF c = "E_acute" THEN "e_acute" ELSE lower_char(c)

\* the replacement of re.sub(r'[^\w\s-]', '_', ...)
punct_to_underscore(c) == IF IsWord(c) \/ IsSpace(c) \/ c = "-" THEN c ELSE "_"

\* re.sub(r'[-\s]+', '_', ...) followed by re.sub(r'_+', '_', ...): every run of
\* hyphens, white space and underscores becomes one underscore
IsSep(c) == IsSpace(c) \/ c = "-" \/ c = "_"
RECURSIVE collapse_underscores(_)
collapse_underscores(s) ==
    IF s = <<>> THEN <<>>
    ELSE IF IsSep(Head(s))
         THEN IF Len(s) > 1 /\ IsSep(s[2])
              THEN collapse_underscores(Tail(s))
              ELSE <<"_">> \o collapse_underscores(Tail(s))
         ELSE <<Head(s)>> \o collapse_underscores(Tail(s))

\* str.strip('_')
strip_underscores(s) ==
    LET keep == {i \in 1..Len(s) : s[i] # "_"}
    IN  IF keep = {} THEN <<>>
        ELSE SubSeq(s, Min(keep), CHOOSE i \in keep : \A j \in keep : j <= i)

\* clean_filename of podcast_batch_downloader.py
clean_filename(text) ==
    IF text = NaN \/ text = <<>>
    THEN Unknown
    ELSE strip_underscores(collapse_underscores(
             Map(punct_to_underscore,
                 FlatMap(ascii_fold_char, Map(str_lower_char, text)))))

\* the date segment of format_filename of podcast_batch_downloader.py: a date that is
\* no string makes the test '/' in date_str raise, and the bare except takes today
batch_date_clean(date_str, t) ==
    LET parsed == IF "/" \in Range(date_str) THEN strptime_mdY(date_str)
                  ELSE strptime_Ymd(date_str)
    IN  IF isna(date_str) \/ ~parsed.ok
        THEN strftime_Ymd(now_date(t))
        ELSE strftime_Ymd(parsed)

\* format_filename of podcast_batch_downloader.py
batch_format_filename(source, candidate_name, podcast_title, date_str, t) ==
    clean_filename(source) \o <<"_">> \o clean_filename(candidate_name) \o <<"_">>
        \o clean_filename(podcast_title) \o <<"_">> \o batch_date_clean(date_str, t)

\* filename of _download_episode
batch_filename(row, t) ==
    batch_format_filename(ApplePodcasts, row.Candidate_name, row.Podcast_title,
                          row.Date_posted, t) \o Mp3

\* DownloadTracker._get_existing_files: the names of the *.mp3 files of output_dir
get_existing_files(fs) == {f.name : f \in fs}

\* DownloadTracker.is_downloaded
is_downloaded(existing, filename) == filename \in existing

\* the record DownloadTracker.add_result appends; file_size is taken from the file
\* at output_path when there is one
result_record(row, status, error_message, output_path, fs, t) ==
    [timestamp |-> t,
     episode_title |-> row.Episode_title,
     podcast_title |-> row.Podcast_title,
     candidate_name |-> row.Candidate_name,
     date_posted |-> row.Date_posted,
     status |-> status,
     error_message |-> error_message,
     output_path |-> output_path,
     file_size |-> IF output_path # <<>> /\ Exists(fs, output_path)
                   THEN <<(CHOOSE f \in fs : f.name = output_path).written>>
                   ELSE <<>>]

\* DownloadTracker.add_result
add_result(res, row, status, error_message, output_path, fs, t) ==
    Append(res, result_record(row, status, error_message, output_path, fs, t))

\* csv.DictWriter writes str(value): a missing value of the catalog becomes 'nan'
csv_str(v) == IF v = NaN THEN <<"n","a","n">> ELSE v

write_row(r) ==
    [r EXCEPT !.episode_title = csv_str(@), !.podcast_title = csv_str(@),
              !.candidate_name = csv_str(@), !.date_posted = csv_str(@)]

\* DownloadTracker.save: the status file is opened with 'w' and gets this run's results
save(res) == [exists |-> TRUE, rows |-> Map(write_row, res)]

Msg_Already == <<"Already downloaded">>
Msg_MissingUrl == <<"Missing URL">>
Msg_NoAudio == <<"No audio URL found">>
Msg_Exception == <<"str(e)">>

\* the results _search_episode(episode_title, hyperlink) can return to its caller:
\* no audio URL, or one found on a page
search_outcomes(hyperlink) == {None, Some(<<CdnUrl(hyperlink)>>)}

BatchCatalogs == {<<RowA, RowB>>, <<RowD, RowC>>, <<RowE>>}

\* PodcastBatchDownloader.__init__ (with its DownloadTracker) on an empty output
\* directory, then process_all up to its loop
InitBatch ==
    /\ catalog \in BatchCatalogs
    /\ files = {}
    /\ pc = "row" /\ run = 1 /\ rowIdx = 1
    /\ cur = NoCur /\ rowlog = NoLog
    /\ metadata_df = <<>>
    /\ metadata_file = NoFile
    /\ clock = 0
    /\ op = "init"
    /\ lastUpsert = NoCall
    /\ results = <<>>
    /\ existing_files = get_existing_files({})
    /\ status_file = NoStatusFile
    /\ temp_files = {}
    /\ prog = "batch" /\ resolver = NoRes /\ retry = NoRetry
    /\ temp_dir = TRUE
    /\ NoScripts

\* what is left alone by every step of podcast_batch_downloader.py
NotBatch == <<metadata_df, metadata_file, lastUpsert>>

\* the row at hand as process_all of podcast_batch_downloader.py reaches it
BatchReached(path) ==
    [idx |-> rowIdx, file_present |-> Exists(files, path),
     ledger_completed |-> FALSE, resolved |-> FALSE, requested |-> FALSE]

BatchAtRow == prog = "batch" /\ pc = "row" /\ rowIdx <= Len(catalog)

\* process_all, a row without episode title: continue
BatchSkipRow ==
    /\ BatchAtRow
    /\ isna(catalog[rowIdx].Episode_title)
    /\ rowIdx' = rowIdx + 1
    /\ op' = "skip"
    /\ UNCHANGED callVars
    /\ UNCHANGED <<NotBatch, clock, catalog, files, pc, run, cur, rowlog, batchVars>>

\* _download_episode, tracker.is_downloaded(filename): the row is recorded as SKIPPED
AlreadyDownloaded ==
    /\ BatchAtRow
    /\ ~isna(catalog[rowIdx].Episode_title)
    /\ \E filename \in {batch_filename(catalog[rowIdx], clock)} :
        /\ is_downloaded(existing_files, filename)
        /\ rowlog' = BatchReached(filename)
        /\ results' = add_result(results, catalog[rowIdx], "SKIPPED", Msg_Already,
                                 filename, files, clock)
    /\ rowIdx' = rowIdx + 1
    /\ op' = "add_result"
    /\ UNCHANGED callVars
    /\ UNCHANGED <<NotBatch, clock, catalog, files, pc, run, cur,
                   existing_files, status_file, temp_files>>

\* _download_episode, not downloaded and no hyperlink: FAILED 'Missing URL'
MissingUrl ==
    /\ BatchAtRow
    /\ ~isna(catalog[rowIdx].Episode_title)
    /\ \E filename \in {batch_filename(catalog[rowIdx], clock)} :
        /\ ~is_downloaded(existing_files, filename)
        /\ rowlog' = BatchReached(filename)
    /\ isna(catalog[rowIdx].Hyperlink)
    /\ results' = add_result(results, catalog[rowIdx], "FAILED", Msg_MissingUrl,
                             <<>>, files, clock)
    /\ rowIdx' = rowIdx + 1
    /\ op' = "add_result"
    /\ UNCHANGED callVars
    /\ UNCHANGED <<NotBatch, clock, catalog, files, pc, run, cur,
                   existing_files, status_file, temp_files>>

\* _download_episode, _search_episode finds no audio URL: FAILED 'No audio URL found'
SearchMiss ==
    /\ BatchAtRow
    /\ ~isna(catalog[rowIdx].Episode_title)
    /\ \E filename \in {batch_filename(catalog[rowIdx], clock)} :
        /\ ~is_downloaded(existing_files, filename)
        /\ rowlog' = [BatchReached(filename) EXCEPT !.resolved = TRUE]
    /\ ~isna(catalog[rowIdx].Hyperlink)
    /\ None \in search_outcomes(catalog[rowIdx].Hyperlink)
    /\ results' = add_result(results, catalog[rowIdx], "FAILED", Msg_NoAudio,
                             <<>>, files, clock)
    /\ rowIdx' = rowIdx + 1
    /\ op' = "add_result"
    /\ UNCHANGED callVars
    /\ UNCHANGED <<NotBatch, clock, catalog, files, pc, run, cur,
                   existing_files, status_file, temp_files>>

\* _download_episode, an audio URL is found but the request for it raises:
\* FAILED with the text of the exception
BatchRequestFails ==
    /\ BatchAtRow
    /\ ~isna(catalog[rowIdx].Episode_title)
    /\ \E filename \in {batch_filename(catalog[rowIdx], clock)} :
        /\ ~is_downloaded(existing_files, filename)
        /\ rowlog' = [BatchReached(filename) EXCEPT !.resolved = TRUE,
                                                    !.requested = TRUE]
    /\ ~isna(catalog[rowIdx].Hyperlink)
    /\ \E found \in search_outcomes(catalog[rowIdx].Hyperlink) : found # None
    /\ results' = add_result(results, catalog[rowIdx], "FAILED", Msg_Exception,
                             <<>>, files, clock)
    /\ rowIdx' = rowIdx + 1
    /\ op' = "add_result"
    /\ UNCHANGED callVars
    /\ UNCHANGED <<NotBatch, clock, catalog, files, pc, run, cur,
                   existing_files, status_file, temp_files>>

\* _download_episode, an audio URL is found and the request answers 2xx:
\* open(temp_path, 'wb')
BatchStartStream ==
    /\ BatchAtRow
    /\ ~isna(catalog[rowIdx].Episode_title)
    /\ ~isna(catalog[rowIdx].Hyperlink)
    /\ \E filename \in {batch_filename(catalog[rowIdx], clock)} :
        /\ ~is_downloaded(existing_files, filename)
        /\ rowlog' = [BatchReached(filename) EXCEPT !.resolved = TRUE,
                                                    !.requested = TRUE]
        /\ \E found \in search_outcomes(catalog[rowIdx].Hyperlink) :
            /\ found # None
            /\ cur' = [path |-> filename, audio_url |-> found, metadata |-> None]
            /\ temp_files' = open_wb(temp_files, filename, found)
    /\ pc' = "stream"
    /\ op' = "open"
    /\ UNCHANGED callVars
    /\ UNCHANGED <<NotBatch, clock, catalog, files, run, rowIdx,
                   results, existing_files, status_file>>

TempWritten == (CHOOSE f \in temp_files : f.name = cur.path).written

\* the loop over response.iter_content: one chunk is written to the temp file
BatchWriteChunk ==
    /\ prog = "batch"
    /\ pc = "stream"
    /\ TempWritten < NChunks
    /\ temp_files' = write_chunk(temp_files, cur.path)
    /\ op' = "chunk"
    /\ UNCHANGED callVars
    /\ UNCHANGED <<NotBatch, clock, catalog, files, pc, run, rowIdx, cur, rowlog,
                   results, existing_files, status_file>>

\* the stream raises before its last chunk: FAILED with the text of the exception
BatchStreamError ==
    /\ prog = "batch"
    /\ pc = "stream"
    /\ TempWritten < NChunks
    /\ results' = add_result(results, catalog[rowIdx], "FAILED", Msg_Exception,
                             <<>>, files, clock)
    /\ pc' = "row"
    /\ rowIdx' = rowIdx + 1
    /\ cur' = NoCur
    /\ op' = "add_result"
    /\ UNCHANGED callVars
    /\ UNCHANGED <<NotBatch, clock, catalog, files, run, rowlog,
                   existing_files, status_file, temp_files>>

\* shutil.move(temp_path, final_path): the temp file takes the place of final_path
move(fs, tmp, path) ==
    {f \in fs : f.name # path} \cup {f \in tmp : f.name = path}

\* the stream ends: the temp file is moved to final_path and the row is recorded
\* as SUCCESS
BatchFinish ==
    /\ prog = "batch"
    /\ pc = "stream"
    /\ TempWritten = NChunks
    /\ \E fs2 \in {move(files, temp_files, cur.path)} :
        /\ files' = fs2
        /\ results' = add_result(results, catalog[rowIdx], "SUCCESS", <<>>,
                                 cur.path, fs2, clock)
    /\ temp_files' = {f \in temp_files : f.name # cur.path}
    /\ pc' = "row"
    /\ rowIdx' = rowIdx + 1
    /\ cur' = NoCur
    /\ op' = "add_result"
    /\ UNCHANGED callVars
    /\ UNCHANGED <<NotBatch, clock, catalog, run, rowlog, existing_files, status_file>>

\* DownloadTracker.save under the outcomes of its file operations: open(..., 'w')
\* fails and the file stays as it was, or a write fails and the file stays truncated
save_outcome(file, res, io) ==
    CASE io = "ok" -> save(res)
      [] io = "open_failed" -> file
      [] OTHER -> [exists |-> TRUE, rows |-> <<>>]

\* the finally clause of process_all: tracker.save(), then shutil.rmtree(temp_dir);
\* an exception of save() leaves the clause before rmtree and leaves process_all
BatchFinally ==
    \E io \in IoOutcomes :
        /\ status_file' = save_outcome(status_file, results, io)
        /\ temp_files' = IF io = "ok" THEN {} ELSE temp_files
        /\ temp_dir' = IF io = "ok" THEN FALSE ELSE temp_dir
        /\ pc' = IF io = "ok" THEN "done" ELSE "raised"

\* the loop over the catalog ends; finally: tracker.save() and rmtree(temp_dir)
BatchEndRun ==
    /\ prog = "batch"
    /\ pc = "row"
    /\ rowIdx > Len(catalog)
    /\ BatchFinally
    /\ op' = "save"
    /\ UNCHANGED procVars
    /\ UNCHANGED <<NotBatch, clock, catalog, files, run, rowIdx, cur, rowlog,
                   results, existing_files>>

\* KeyboardInterrupt while a row is handled: no except clause catches it, and the
\* finally clause of process_all runs tracker.save() and rmtree(temp_dir)
BatchCtrlC ==
    /\ prog = "batch"
    /\ pc \in {"row", "stream"}
    /\ rowIdx <= Len(catalog)
    /\ BatchFinally
    /\ cur' = NoCur
    /\ op' = "ctrl_c"
    /\ UNCHANGED procVars
    /\ UNCHANGED <<NotBatch, clock, catalog, files, run, rowIdx, rowlog,
                   results, existing_files>>

\* the process is killed: nothing more runs
BatchKill ==
    /\ prog = "batch"
    /\ pc \in {"row", "stream"}
    /\ pc' = "dead"
    /\ cur' = NoCur
    /\ op' = "kill"
    /\ UNCHANGED callVars
    /\ UNCHANGED <<NotBatch, clock, catalog, files, run, rowIdx, rowlog, batchVars>>

\* the program is started again: PodcastBatchDownloader.__init__ with a new
\* DownloadTracker, then process_all up to its loop (os.makedirs(temp_dir))
BatchNewRun ==
    /\ prog = "batch"
    /\ pc \in {"done", "dead", "raised"}
    /\ run < MaxRuns
    /\ run' = run + 1
    /\ results' = <<>>
    /\ existing_files' = get_existing_files(files)
    /\ pc' = "row"
    /\ rowIdx' = 1
    /\ rowlog' = NoLog
    /\ op' = "start"
    /\ UNCHANGED procVars
    /\ temp_dir' = TRUE
    /\ UNCHANGED <<NotBatch, clock, catalog, files, cur, status_file, temp_files>>

NextBatch ==
    \/ BatchSkipRow \/ AlreadyDownloaded \/ MissingUrl \/ SearchMiss
    \/ BatchRequestFails \/ BatchStartStream \/ BatchWriteChunk \/ BatchStreamError
    \/ BatchFinish \/ BatchEndRun \/ BatchCtrlC \/ BatchKill \/ BatchNewRun
    \/ EnvRemove \/ Tick

SpecBatch == InitBatch /\ [][NextBatch]_vars

-----------------------------------------------------------------------------
(* Properties of process_all of download.py under SpecPipeline *)

\* C2: in every reachable state, after a mid-stream error or an interruption too,
\* every file at a canonical output path is a completely downloaded file.
C2_CanonicalAbsentOrComplete ==
    \A f \in files : f.written = NChunks

\* C4: after process_all has handled a row whose output file existed, whatever the
\* fetch of its hyperlink gave, the ledger holds a row of that identity with status
\* 'completed'.
C4_ExistingFileCompleted ==
    op = "refresh" =>
        \E i \in RowsOf(metadata_df, catalog[rowlog.idx]) :
            metadata_df[i].status = "completed"

\* C10: for a catalog row whose ledger row has status 'completed' when process_all
\* reaches it, no resolution and no download request is made.
C10_CompletedRowsSkipped ==
    rowlog.ledger_completed => ~(rowlog.resolved \/ rowlog.requested)

-----------------------------------------------------------------------------
(* Properties of process_all of podcast_batch_downloader.py under SpecBatch *)

\* C3: no audio download request is issued for a row whose output file is on disk
\* at the moment the row is reached, be the file from an earlier run or from
\* earlier in the same run.
C3_NoRequestWhenFilePresent ==
    ~(rowlog.file_present /\ rowlog.requested)

\* C8: after each upsert (add_result) the persisted ledger equals the in-memory
\* ledger.
C8_UpsertPersisted ==
    op = "add_result" => status_file = save(results)

\* C9: an identity that has an entry in the persisted ledger has one after every
\* later step and in every later run.
C9_EntriesNeverDeleted ==
    [][ \A i \in 1..Len(status_file.rows) :
          \E j \in 1..Len(status_file'.rows) :
              /\ status_file'.rows[j].episode_title = status_file.rows[i].episode_title
              /\ status_file'.rows[j].podcast_title = status_file.rows[i].podcast_title
      ]_vars

-----------------------------------------------------------------------------
(* Specification SpecDrivers: process_all of download.py or of
   podcast_batch_downloader.py, whichever program is started *)

\* the output directory as an earlier run can have left it: empty, or with the
\* finished download of the first catalog row
PriorFiles(name) ==
    {{}, {[name |-> name, src |-> Some(<<CdnUrl(<<>>)>>), written |-> NChunks]}}

InitDrivers ==
    /\ prog \in {"download", "batch"}
    /\ catalog \in Catalogs
    /\ files \in PriorFiles(IF prog = "download" THEN mp3_path(catalog[1], 0)
                            ELSE batch_filename(catalog[1], 0))
    /\ pc = "row" /\ run = 1 /\ rowIdx = 1
    /\ cur = NoCur /\ rowlog = NoLog
    /\ metadata_df = <<>>
    /\ metadata_file = NoFile
    /\ clock = 0
    /\ op = "init"
    /\ lastUpsert = NoCall
    /\ results = <<>>
    /\ existing_files = IF prog = "batch" THEN get_existing_files(files) ELSE {}
    /\ status_file = NoStatusFile
    /\ temp_files = {}
    /\ resolver = NoRes /\ retry = NoRetry
    /\ temp_dir = (prog = "batch")
    /\ NoScripts

\* one run of the loop over the catalog, up to its end
NextDrivers ==
    \/ SkipRow \/ RefreshExisting \/ ResolveMiss \/ RowRaises \/ RequestFails
    \/ StartStream \/ WriteChunk \/ StreamError \/ FinishStream \/ EndRun
    \/ BatchSkipRow \/ AlreadyDownloaded \/ MissingUrl \/ SearchMiss
    \/ BatchRequestFails \/ BatchStartStream \/ BatchWriteChunk \/ BatchStreamError
    \/ BatchFinish \/ BatchEndRun
    \/ Tick

SpecDrivers == InitDrivers /\ [][NextDrivers]_vars

\* the steps that end the handling of a row with a failure
FailureOps == {"miss", "request_failed", "stream_error", "row_error", "refresh"}

RowFailed ==
    \/ op' \in FailureOps
    \/ op' = "add_result" /\ results'[Len(results')].status = "FAILED"

\* C11: a failure while one catalog row is handled (resolution miss, download error,
\* ledger write error, unexpected exception) leaves process_all at the next row; the
\* rows are passed one by one in input order, each row with an episode title is
\* handled when it is passed, and the loop ends only behind the last row.
C11_FailureNeverStopsIteration ==
    [][ /\ RowFailed => (pc' = "row" /\ rowIdx' = rowIdx + 1)
        /\ (pc \in {"row", "stream"} /\ rowIdx' # rowIdx /\ op' # "start") =>
              /\ rowIdx' = rowIdx + 1
              /\ ~isna(catalog[rowIdx].Episode_title) => rowlog'.idx = rowIdx
        /\ op' \in {"end", "save"} => rowIdx > Len(catalog)
      ]_vars

\* a row failed and the row after it has been handled
C11_Witness ==
    /\ rowlog.idx = 2
    /\ op \in {"miss", "add_result"}
    /\ \/ prog = "download" /\ Len(metadata_df) >= 1 /\ metadata_df[1].status = "failed"
                            /\ SameIdentity(metadata_df[1], catalog[1])
       \/ prog = "batch" /\ Len(results) = 2 /\ results[1].status = "FAILED"

\* C12: after process_all has handled a row with an episode title without ending in a
\* completed download, the ledger holds a row of that identity with status 'failed'
\* (or 'completed' from earlier).
C12_RowErrorRecorded ==
    (prog = "download" /\ op \in FailureOps) =>
        \E i \in RowsOf(metadata_df, catalog[rowlog.idx]) :
            metadata_df[i].status \in {"failed", "completed"}

-----------------------------------------------------------------------------
(* Specification SpecResolver: one call of a resolver, get_audio_url_with_retries of
   download.py or _search_episode of podcast_batch_downloader.py (with the test
   _download_episode makes before it), under every outcome of its network calls *)

MaxAttempts == 3    \* get_audio_url_with_retries is called with retries in 1..MaxAttempts

\* str.split(): the words of a text
RECURSIVE split(_)
split(s) ==
    LET t == lstrip(s)
        ends == {i \in 1..Len(t) : IsSpace(t[i])}
    IN  IF t = <<>> THEN <<>>
        ELSE IF ends = {} THEN <<t>>
        ELSE <<SubSeq(t, 1, Min(ends) - 1)>> \o split(SubSeq(t, Min(ends), Len(t)))

\* ' '.join(words)
RECURSIVE join(_)
join(ws) ==
    IF ws = <<>> THEN <<>>
    ELSE IF Len(ws) = 1 THEN ws[1]
    ELSE ws[1] \o <<" ">> \o join(Tail(ws))

\* words[:-(attempt)]: for attempt 0 the slice words[:-0] is words[:0], no word
slice_to_minus(ws, attempt) ==
    IF attempt = 0 THEN <<>>
    ELSE SubSeq(ws, 1, IF Len(ws) > attempt THEN Len(ws) - attempt ELSE 0)

\* the search term of get_audio_url_with_retries in attempt number attempt
search_term(episode_title, attempt) ==
    LET term == clean_string(episode_title)
        ws == split(term)
    IN  IF Len(ws) > attempt + 1 THEN join(slice_to_minus(ws, attempt)) ELSE term

\* clean_search_term of podcast_batch_downloader.py
clean_search_term(text) ==
    IF text = NaN \/ text = Number \/ text = <<>>
    THEN <<>>
    ELSE strip(collapse_spaces(
             Map(punct_to_space, FlatMap(ascii_fold_char, Map(str_lower_char, text)))))

\* sleep(2 ** attempt), the delay after an attempt that raised
RECURSIVE backoff_delay(_)
backoff_delay(attempt) == IF attempt = 0 THEN 1 ELSE 2 * backoff_delay(attempt - 1)

\* sleep(1 + attempt), the delay after an attempt that found nothing
pace_delay(attempt) == 1 + attempt

\* what a fetch of a page can give
PageOutcomes == {"raise", "non200", "audio", "no_audio"}

\* what the request to the search index can give: an exception, a status other than
\* 200, a body that is no JSON object, results without episode URL, or a first
\* episode URL that is a string, the string 'unavailable', or a number
SearchOutcomes == {"raise", "non200", "bad_json", "no_results",
                   "episode_url", "episode_unavailable", "episode_number"}

EpisodeUrl == <<"https://ep1">>
AppleUrl == <<"https://podcasts.apple.com/e1">>

Title_One == <<"E","p">>
Title_Three == <<"A"," ","B",":"," ","C">>

ResolverUrls == {NaN, <<>>, <<"U","n","a","v","a","i","l","a","b","l","e">>, Number,
                 <<"https://h1">>, AppleUrl}
ResolverTitles == {Title_One, Title_Three}

NotFound == <<None, None>>

\* the first result of the search response of _search_episode, as far as the code
\* looks at it: how its trackName matches the search term, and its trackViewUrl
NoHit == [match |-> "none", url |-> None]
SearchHits == {NoHit,
               [match |-> "none", url |-> Some(EpisodeUrl)],
               [match |-> "exact", url |-> Some(EpisodeUrl)],
               [match |-> "exact", url |-> None],
               [match |-> "partial", url |-> Some(EpisodeUrl)]}

PageCall(url, outcome) == [kind |-> "page", target |-> url, outcome |-> outcome]
SearchCall(term, outcome) == [kind |-> "search", target |-> term, outcome |-> outcome]

\* a call of get_audio_url_with_retries(url, episode_title, retries) is about to be made
InitResolver ==
    /\ prog \in {"download", "batch"}
    /\ \E url \in ResolverUrls, title \in ResolverTitles, n \in 1..MaxAttempts :
          resolver = [url0 |-> url, title |-> title,
                      retries0 |-> IF prog = "download" THEN n ELSE 1,
                      url |-> url, retries |-> IF prog = "download" THEN n ELSE 1,
                      attempt |-> 0, pc |-> "call",
                      calls |-> <<>>, sleeps |-> <<>>, result |-> <<>>,
                      hit |-> NoHit]
    /\ retry = NoRetry
    /\ catalog = <<>> /\ files = {} /\ pc = "idle" /\ run = 1 /\ rowIdx = 0
    /\ cur = NoCur /\ rowlog = NoLog
    /\ metadata_df = <<>>
    /\ metadata_file = NoFile
    /\ clock = 0
    /\ op = "init"
    /\ lastUpsert = NoCall
    /\ results = <<>> /\ existing_files = {}
    /\ status_file = NoStatusFile /\ temp_files = {}
    /\ temp_dir = FALSE
    /\ NoScripts

\* what a step of a resolver leaves alone
NotResolver ==
    <<ledgerVars, pipeVars, batchVars, prog, scriptVars, retry, temp_dir>>

\* an except clause that sleeps one second after every attempt but the last
after_except_flat(r) ==
    [r EXCEPT !.sleeps = IF r.attempt < r.retries - 1 THEN Append(@, 1) ELSE @,
              !.attempt = @ + 1, !.pc = "fetch"]

\* the except clause of an attempt: sleep(2 ** attempt) unless it was the last one
after_except(r) ==
    [r EXCEPT !.sleeps = IF r.attempt < r.retries - 1
                         THEN Append(@, backoff_delay(r.attempt)) ELSE @,
              !.attempt = @ + 1, !.pc = "fetch"]

\* the end of an attempt that found nothing: sleep(1 + attempt)
after_nothing(r) ==
    [r EXCEPT !.sleeps = Append(@, pace_delay(r.attempt)),
              !.attempt = @ + 1, !.pc = "fetch"]

\* lines 170-174 on a response with status 200: the metadata dict and its
\* 'audio_urls', a JSON text, are both truthy, and audio_urls[0] of an empty list
\* raises IndexError
direct_result(url, content, t) ==
    LET metadata == extract_metadata(url, content, t)
    IN  IF metadata # None /\ metadata[1].audio_urls[1] # <<>>
        THEN IF content.audio = <<>>
             THEN [kind |-> "IndexError", value |-> NotFound]
             ELSE [kind |-> "found", value |-> <<Some(<<content.audio[1]>>), metadata>>]
        ELSE [kind |-> "nothing", value |-> NotFound]

\* a search in every attempt, the last one included
may_search_in_last(r) == r.attempt < r.retries

\* if attempt < retries - 1: the search is left out in the last attempt of a call
may_search(r) == r.attempt < r.retries - 1

\* get_audio_url_with_retries is entered
ResolverCall ==
    /\ prog = "download"
    /\ resolver.pc = "call"
    /\ resolver' =
          IF resolve_raises(resolver.url)
          THEN [resolver EXCEPT !.pc = "raised"]
          ELSE IF no_valid_url(resolver.url)
          THEN [resolver EXCEPT !.pc = "done", !.result = NotFound]
          ELSE [resolver EXCEPT !.pc = "fetch"]
    /\ UNCHANGED NotResolver

\* one attempt: response = self.session.get(url) and what follows from it
FetchPage ==
    /\ prog = "download"
    /\ resolver.pc = "fetch"
    /\ resolver.attempt < resolver.retries
    /\ \E o \in PageOutcomes :
        \E r \in {[resolver EXCEPT !.calls = Append(@, PageCall(resolver.url, o))]} :
          resolver' =
            CASE o = "raise" -> after_except(r)
              [] o = "non200" ->
                    IF may_search(r)
                    THEN [r EXCEPT !.pc = "search"]
                    ELSE after_nothing(r)
              [] OTHER ->
                    LET got == direct_result(r.url, ServedPage(r.url, o), clock)
                    IN  IF got.kind = "IndexError" THEN after_except(r)
                        ELSE IF got.kind = "nothing" THEN
                             IF may_search(r)
                             THEN [r EXCEPT !.pc = "search"]
                             ELSE after_nothing(r)
                        ELSE [r EXCEPT !.pc = "done", !.result = got.value]
    /\ UNCHANGED NotResolver

\* the iTunes search of an attempt that is not the last: the first result with an
\* episodeUrl is resolved by a call with retries=1, whose result is returned as it is
SearchITunes ==
    /\ prog = "download"
    /\ resolver.pc = "search"
    /\ \E o \in SearchOutcomes :
        \E r \in {[resolver EXCEPT !.calls =
                     Append(@, SearchCall(search_term(resolver.title, resolver.attempt), o))]} :
          resolver' =
            CASE o \in {"raise", "bad_json"} -> after_except(r)
              [] o \in {"non200", "no_results"} -> after_nothing(r)
              [] o = "episode_number" ->
                    \* url.lower() raises in the inner call, the outer except catches it
                    after_except(r)
              [] o = "episode_unavailable" ->
                    [r EXCEPT !.pc = "done", !.result = NotFound]
              [] o = "episode_url" ->
                    [r EXCEPT !.url = EpisodeUrl, !.retries = 1, !.attempt = 0,
                              !.pc = "fetch"]
    /\ UNCHANGED NotResolver

\* the loop over the attempts is over: return None, None
Exhausted ==
    /\ prog = "download"
    /\ resolver.pc = "fetch"
    /\ resolver.attempt >= resolver.retries
    /\ resolver' = [resolver EXCEPT !.pc = "done", !.result = NotFound]
    /\ UNCHANGED NotResolver

\* 'podcasts.apple.com' in str(hyperlink)
IsAppleUrl(h) == h = AppleUrl

\* a _get_audio_url that answers with the URL it was given when the page has none
get_audio_url_fallback(url, o) ==
    IF o \in {"raise", "non200"} THEN None
    ELSE IF ServedPage(url, o).audio = <<>> THEN Some(url)
    ELSE Some(<<ServedPage(url, o).audio[1]>>)

\* PodcastBatchDownloader._get_audio_url: the first match of the first pattern that
\* matches the text of the page; None when nothing matches, and when the request
\* raises or raise_for_status does
get_audio_url(url, o) ==
    IF o \in {"raise", "non200"} \/ ServedPage(url, o).audio = <<>>
    THEN None
    ELSE Some(<<ServedPage(url, o).audio[1]>>)

\* _download_episode, lines 234-238: no search without a hyperlink; then
\* _search_episode is entered
BatchCall ==
    /\ prog = "batch"
    /\ resolver.pc = "call"
    /\ resolver' =
          IF isna(resolver.url)
          THEN [resolver EXCEPT !.pc = "done", !.result = NotFound]
          ELSE IF resolver.url # <<>> /\ IsAppleUrl(resolver.url)
          THEN [resolver EXCEPT !.pc = "direct"]
          ELSE [resolver EXCEPT !.pc = "itunes"]
    /\ UNCHANGED NotResolver

\* _search_episode, the direct try for an Apple Podcasts hyperlink
BatchDirect ==
    /\ prog = "batch"
    /\ resolver.pc = "direct"
    /\ \E o \in PageOutcomes :
        \E audio_url \in {get_audio_url(resolver.url, o)} :
          resolver' =
            [resolver EXCEPT !.calls = Append(@, PageCall(resolver.url, o)),
                             !.pc = IF audio_url # None THEN "done" ELSE "itunes",
                             !.result = IF audio_url # None
                                        THEN <<Some(resolver.url), audio_url>> ELSE @]
    /\ UNCHANGED NotResolver

\* _search_episode, the request to the iTunes search API
BatchSearch ==
    /\ prog = "batch"
    /\ resolver.pc = "itunes"
    /\ \E o \in {"raise", "non200", "bad_json", "results"}, hit \in SearchHits :
        /\ o # "results" => hit = NoHit
        /\ resolver' =
            [resolver EXCEPT !.calls = Append(@, SearchCall(clean_search_term(resolver.title), o)),
                             !.pc = IF o = "results" THEN "exact" ELSE "done",
                             !.result = IF o = "results" THEN @ ELSE NotFound,
                             !.hit = hit]
    /\ UNCHANGED NotResolver

\* _search_episode, the loop over the results whose trackName equals the term
BatchExact ==
    /\ prog = "batch"
    /\ resolver.pc = "exact"
    /\ IF resolver.hit.match = "exact" /\ resolver.hit.url # None
       THEN \E o \in PageOutcomes :
              \E audio_url \in {get_audio_url(resolver.hit.url[1], o)} :
                resolver' =
                  [resolver EXCEPT !.calls = Append(@, PageCall(resolver.hit.url[1], o)),
                                   !.pc = IF audio_url # None THEN "done" ELSE "partial",
                                   !.result = IF audio_url # None
                                              THEN <<resolver.hit.url, audio_url>> ELSE @]
       ELSE resolver' = [resolver EXCEPT !.pc = "partial"]
    /\ UNCHANGED NotResolver

\* _search_episode, the loop over the results whose trackName contains the term
BatchPartial ==
    /\ prog = "batch"
    /\ resolver.pc = "partial"
    /\ IF resolver.hit.match \in {"exact", "partial"} /\ resolver.hit.url # None
       THEN \E o \in PageOutcomes :
              \E audio_url \in {get_audio_url(resolver.hit.url[1], o)} :
                resolver' =
                  [resolver EXCEPT !.calls = Append(@, PageCall(resolver.hit.url[1], o)),
                                   !.pc = "done",
                                   !.result = IF audio_url # None
                                              THEN <<resolver.hit.url, audio_url>>
                                              ELSE NotFound]
       ELSE resolver' = [resolver EXCEPT !.pc = "done", !.result = NotFound]
    /\ UNCHANGED NotResolver

NextResolver ==
    \/ ResolverCall \/ FetchPage \/ SearchITunes \/ Exhausted
    \/ BatchCall \/ BatchDirect \/ BatchSearch \/ BatchExact \/ BatchPartial

SpecResolver == InitResolver /\ [][NextResolver]_vars

-----------------------------------------------------------------------------
(* Properties of the resolvers under SpecResolver *)

AllRaised == \A i \in 1..Len(resolver.calls) : resolver.calls[i].outcome = "raise"

\* C13: when every network call of get_audio_url_with_retries(url, title, n) raises,
\* the call makes exactly n fetches, all of the hyperlink, sleeps between consecutive
\* attempts only, with strictly increasing delays, and returns (None, None).
C13_TotalTransportFailure ==
    (prog = "download" /\ resolver.pc = "done" /\ resolver.calls # <<>> /\ AllRaised) =>
        /\ Len(resolver.calls) = resolver.retries0
        /\ \A i \in 1..Len(resolver.calls) :
              resolver.calls[i] = PageCall(resolver.url0, "raise")
        /\ Len(resolver.sleeps) = resolver.retries0 - 1
        /\ \A i \in 1..(Len(resolver.sleeps) - 1) :
              resolver.sleeps[i] < resolver.sleeps[i + 1]
        /\ resolver.result = NotFound

\* a call with three attempts has returned after three fetches that all raised
C13_Witness ==
    /\ prog = "download" /\ resolver.pc = "done"
    /\ resolver.retries0 = 3
    /\ Len(resolver.calls) = 3
    /\ AllRaised

\* C14: for a hyperlink that is missing, 'unavailable' or any string, and for every
\* combination of network outcomes, get_audio_url_with_retries never raises; what it
\* returns is a candidate with its metadata or (None, None).
C14_ResolutionNeverRaises ==
    (prog = "download" /\ resolver.url0 # Number) =>
        /\ resolver.pc # "raised"
        /\ resolver.pc = "done" =>
              \/ resolver.result = NotFound
              \/ resolver.result[1] # None /\ resolver.result[2] # None

\* a call has returned after a page without audio URL and a malformed search response
C14_Witness ==
    /\ prog = "download" /\ resolver.pc = "done"
    /\ \E i \in 1..Len(resolver.calls) : resolver.calls[i].outcome = "no_audio"
    /\ \E i \in 1..Len(resolver.calls) :
          resolver.calls[i].outcome \in {"bad_json", "episode_number"}

\* the audio URL a finished resolver call returned, None for none
ReturnedAudio ==
    IF prog = "download" THEN resolver.result[1] ELSE resolver.result[2]

\* C15: whenever get_audio_url_with_retries or _search_episode returns an audio URL,
\* the last network call was the fetch of a page with status 200 whose text holds
\* audio URLs, and the URL returned is the first one extracted from that page.
C15_CandidateWasExtracted ==
    (resolver.pc = "done" /\ ReturnedAudio # None) =>
        /\ resolver.calls # <<>>
        /\ \E c \in {resolver.calls[Len(resolver.calls)]} :
              /\ c.kind = "page"
              /\ c.outcome = "audio"
              /\ ServedPage(c.target, c.outcome).audio # <<>>
              /\ ReturnedAudio = Some(<<ServedPage(c.target, c.outcome).audio[1]>>)

\* an audio URL was returned from the page of a search hit, after a page without one
C15_Witness ==
    /\ resolver.pc = "done"
    /\ ReturnedAudio # None
    /\ Len(resolver.calls) >= 3
    /\ resolver.calls[1].outcome = "no_audio"
    /\ resolver.calls[Len(resolver.calls)].target = EpisodeUrl

\* C16: when the first fetch of the hyperlink answers 200 with a page without audio
\* URL and attempts remain, get_audio_url_with_retries has queried the search index
\* with the normalized episode title by the time it gives up with (None, None).
C16_SearchAfterEmptyExtraction ==
    (/\ prog = "download" /\ resolver.pc = "done"
     /\ resolver.result = NotFound
     /\ resolver.retries0 >= 2
     /\ resolver.calls # <<>>
     /\ resolver.calls[1] = PageCall(resolver.url0, "no_audio")) =>
        \E j \in 2..Len(resolver.calls) :
            resolver.calls[j].kind = "search"
            /\ resolver.calls[j].target = clean_string(resolver.title)

\* C17: when the hyperlink is missing, NaN or 'unavailable', the resolver has made a
\* search by episode title by the time it reports that nothing was found.
C17_SearchWithoutHyperlink ==
    (resolver.pc = "done" /\ no_valid_url(resolver.url0)) =>
        \E j \in 1..Len(resolver.calls) : resolver.calls[j].kind = "search"

-----------------------------------------------------------------------------
(* Specification SpecRetry: main of download.py after process_all, that is
   retry_failed_downloads(max_retries) and the exit of the process *)

MaxPasses == 2      \* retry_failed_downloads is called with max_retries in 0..MaxPasses

\* the rows of metadata_df with status 'failed'
failed_rows(df) == SelectSeq(df, LAMBDA r : r.status = "failed")

\* len(self.metadata_df[self.metadata_df['status'] == 'failed'])
failed_count(df) == Len(failed_rows(df))

\* a match that takes every row of the catalog
matching_rows_all(cat, failed_row) == cat

\* the rows of the catalog that match a failed ledger row on both titles
matching_rows(cat, failed_row) ==
    SelectSeq(cat, LAMBDA row : /\ PdEq(row.Episode_title, failed_row.episode_title)
                                /\ PdEq(row.Podcast_title, failed_row.podcast_title))

\* title.split('|')[0].strip()
before_pipe(title) ==
    LET bars == {i \in 1..Len(title) : title[i] = "|"}
    IN  strip(IF bars = {} THEN title ELSE SubSeq(title, 1, Min(bars) - 1))

\* ' '.join(title.split()[:3])
first_three(title) ==
    LET ws == split(title)
    IN  join(SubSeq(ws, 1, IF Len(ws) < 3 THEN Len(ws) ELSE 3))

\* a list of variations that starts with show title + episode title
episode_variations_show_first(row) ==
    <<row.Podcast_title \o <<" ">> \o row.Episode_title,
      row.Episode_title,
      before_pipe(row.Episode_title),
      first_three(row.Episode_title)>>

\* episode_variations of retry_failed_downloads
episode_variations(row) ==
    <<row.Episode_title,
      before_pipe(row.Episode_title),
      first_three(row.Episode_title),
      row.Podcast_title \o <<" ">> \o row.Episode_title>>

\* a pass that reads the catalog whatever the ledger holds
pass_reads_catalog_always(failed_entries) == TRUE

\* a pass goes on to read the catalog unless failed_entries.empty
pass_reads_catalog(failed_entries) == failed_entries # <<>>

\* a loop that starts another pass whatever the count
may_start_pass_unbounded(retry_count, max_retries) == TRUE

\* while retry_count < max_retries
may_start_pass(retry_count, max_retries) == retry_count < max_retries

\* an exit that reports success whatever the count
exit_status_zero(failed) == 0

\* main: sys.exit(1) if failed_count > 0, else sys.exit(0)
exit_status(failed) == IF failed > 0 THEN 1 ELSE 0

\* the ledger as process_all can leave it in memory
FailedRow(row) == make_record(row, None, None, "failed", ErrNoAudio, 0)
CompletedRow(row) ==
    make_record(row, extract_metadata(row.Hyperlink, ServedPage(row.Hyperlink, "audio"), 0),
                Some(mp3_path(row, 0)), "completed", None, 0)

RetryStarts ==
    {[cat |-> <<RowA, RowB>>, df |-> <<>>],
     [cat |-> <<RowA, RowB>>, df |-> <<CompletedRow(RowA)>>],
     [cat |-> <<RowA, RowB>>, df |-> <<FailedRow(RowA)>>],
     [cat |-> <<RowA, RowB>>, df |-> <<CompletedRow(RowA), FailedRow(RowB)>>],
     [cat |-> <<RowA, RowB>>, df |-> <<FailedRow(RowA), FailedRow(RowB)>>],
     [cat |-> <<RowA, RowB>>, df |-> <<FailedRow(RowE)>>],
     [cat |-> <<RowD, RowC>>, df |-> <<FailedRow(RowC)>>],
     [cat |-> <<RowF, RowC>>, df |-> <<FailedRow(RowF)>>]}

\* process_all has returned and main calls retry_failed_downloads(max_retries); the
\* clock stands still during the retries, so format_filename gives each catalog row
\* the same path in every pass: mp3_paths holds them, and all_variations the title
\* variations of each row, which depend on the row alone
InitRetry ==
    /\ prog = "download"
    /\ \E st \in RetryStarts, n \in 0..MaxPasses :
        /\ catalog = st.cat
        /\ metadata_df = st.df
        /\ metadata_file = to_csv(st.df, NoFile, "ok")
        /\ retry = [max_retries |-> n, retry_count |-> 0, pc |-> "while",
                    failed_entries |-> <<>>, k |-> 0, row |-> RowA, v |-> 0,
                    mp3_paths |-> [i \in 1..Len(st.cat) |-> mp3_path(st.cat[i], 0)],
                    all_variations |-> [i \in 1..Len(st.cat) |->
                                          episode_variations(st.cat[i])],
                    mp3_path |-> <<>>, variations |-> <<>>,
                    calls |-> 0, reads |-> 0, ret |-> 0, exit_code |-> 0,
                    df0 |-> st.df, master_csv |-> "present",
                    tried |-> <<>>, outcome |-> "none"]
    /\ files = {} /\ pc = "retry" /\ run = 1 /\ rowIdx = 0
    /\ cur = NoCur /\ rowlog = NoLog
    /\ clock = 0
    /\ op = "init"
    /\ lastUpsert = NoCall
    /\ results = <<>> /\ existing_files = {}
    /\ status_file = NoStatusFile /\ temp_files = {}
    /\ resolver = NoRes
    /\ temp_dir = FALSE
    /\ NoScripts

\* what every step of the retry phase leaves alone
NotRetry ==
    <<clock, catalog, pc, run, rowIdx, cur, rowlog, batchVars, prog, scriptVars, resolver,
      temp_dir>>
LedgerAndFiles == <<metadata_df, metadata_file, lastUpsert, files>>

\* pd.read_csv(self.master_csv): a file that is there is read or found unreadable,
\* a missing file raises FileNotFoundError
read_csv_outcomes(master_csv) ==
    IF master_csv = "missing" THEN {"raise"} ELSE {"ok", "raise"}

\* the while loop starts a pass: retry_count += 1 and failed_entries is taken; with no
\* failed entry the loop breaks, else pd.read_csv(self.master_csv) reads the catalog,
\* and an unreadable catalog raises out of retry_failed_downloads and of main
RetryPass ==
    /\ retry.pc = "while"
    /\ may_start_pass(retry.retry_count, retry.max_retries)
    /\ \E failed_entries \in {failed_rows(metadata_df)} :
        IF pass_reads_catalog(failed_entries)
        THEN \E read \in read_csv_outcomes(retry.master_csv) :
                retry' = [retry EXCEPT !.retry_count = @ + 1,
                                       !.failed_entries = failed_entries,
                                       !.reads = @ + 1,
                                       !.k = 1,
                                       !.pc = IF read = "ok" THEN "entry" ELSE "crashed",
                                       !.exit_code = IF read = "ok" THEN @ ELSE 1]
        ELSE retry' = [retry EXCEPT !.retry_count = @ + 1,
                                    !.failed_entries = failed_entries,
                                    !.pc = "return"]
    /\ op' = "retry_pass"
    /\ UNCHANGED <<LedgerAndFiles, NotRetry>>

\* the while condition is false: the loop is left
RetryLoopEnd ==
    /\ retry.pc = "while"
    /\ ~may_start_pass(retry.retry_count, retry.max_retries)
    /\ retry' = [retry EXCEPT !.pc = "return"]
    /\ op' = "retry_loop_end"
    /\ UNCHANGED <<LedgerAndFiles, NotRetry>>

\* matching_rows.iloc[0] as a position in the catalog
first_index(cat, row) == Min({i \in 1..Len(cat) : cat[i] = row})

\* the next failed entry of the pass: with a matching catalog row its first variation
\* is next, without one the entry is passed over
RetryEntry ==
    /\ retry.pc = "entry"
    /\ retry.k <= Len(retry.failed_entries)
    /\ \E matching \in {matching_rows(catalog, retry.failed_entries[retry.k])} :
        IF matching # <<>>
        THEN retry' = [retry EXCEPT
                          !.row = matching[1],
                          !.mp3_path = retry.mp3_paths[first_index(catalog, matching[1])],
                          !.variations =
                              retry.all_variations[first_index(catalog, matching[1])],
                          !.v = 1,
                          !.tried = <<>>,
                          !.outcome = "none",
                          !.pc = "variation"]
        ELSE retry' = [retry EXCEPT !.k = @ + 1]
    /\ op' = "retry_entry"
    /\ UNCHANGED <<LedgerAndFiles, NotRetry>>

\* one variation of the episode title: get_audio_url_with_retries raises (a hyperlink
\* that is a number), returns nothing (the next variation), or returns an audio URL
\* whose download fails (the next variation, a truncated file may stay) or succeeds
\* (the row is upserted as 'completed' and the variations are left)
RetryVariation ==
    /\ retry.pc = "variation"
    /\ retry.v <= Len(retry.variations)
    /\ \E url \in {retry.row.Hyperlink}, path \in {retry.mp3_path} :
        IF resolve_raises(url)
        THEN /\ retry' = [retry EXCEPT !.pc = "crashed", !.exit_code = 1]
             /\ UNCHANGED LedgerAndFiles
        ELSE \E res \in resolve_outcomes(url, clock) :
            IF res[1] = None
            THEN /\ retry' = [retry EXCEPT !.v = @ + 1,
                                !.calls = @ + (IF no_valid_url(url) THEN 0 ELSE 1),
                                !.tried = Append(@, retry.variations[retry.v]),
                                !.outcome = "miss"]
                 /\ UNCHANGED LedgerAndFiles
            ELSE \/ /\ retry' = [retry EXCEPT !.v = @ + 1, !.calls = @ + 2,
                                   !.tried = Append(@, retry.variations[retry.v]),
                                   !.outcome = "download_error"]
                    /\ UNCHANGED LedgerAndFiles
                 \/ /\ retry' = [retry EXCEPT !.v = @ + 1, !.calls = @ + 2,
                                   !.tried = Append(@, retry.variations[retry.v]),
                                   !.outcome = "download_error"]
                    /\ \E w \in 0..(NChunks - 1) :
                          files' = {f \in files : f.name # path} \cup
                                   {[name |-> path, src |-> res[1], written |-> w]}
                    /\ UNCHANGED <<metadata_df, metadata_file, lastUpsert>>
                 \/ /\ retry' = [retry EXCEPT !.k = @ + 1, !.pc = "entry",
                                              !.calls = @ + 2,
                                              !.tried = Append(@, retry.variations[retry.v]),
                                              !.outcome = "downloaded"]
                    /\ files' = {f \in files : f.name # path} \cup
                                {[name |-> path, src |-> res[1], written |-> NChunks]}
                    /\ \E io \in IoOutcomes :
                          DoUpsert(retry.row, res[2], Some(path), "completed", None, io)
    /\ op' = "retry_variation"
    /\ UNCHANGED NotRetry

\* every variation was tried: sleep(2), the next failed entry
RetryVariationsEnd ==
    /\ retry.pc = "variation"
    /\ retry.v > Len(retry.variations)
    /\ retry' = [retry EXCEPT !.k = @ + 1, !.pc = "entry"]
    /\ op' = "retry_variations_end"
    /\ UNCHANGED <<LedgerAndFiles, NotRetry>>

\* the end of a pass: with no failed entry left the loop breaks, else sleep(5) and
\* the while condition is tested again
RetryPassEnd ==
    /\ retry.pc = "entry"
    /\ retry.k > Len(retry.failed_entries)
    /\ retry' = [retry EXCEPT !.pc = IF failed_count(metadata_df) = 0
                                     THEN "return" ELSE "while"]
    /\ op' = "retry_pass_end"
    /\ UNCHANGED <<LedgerAndFiles, NotRetry>>

\* return len(self.metadata_df[self.metadata_df['status'] == 'failed'])
RetryReturn ==
    /\ retry.pc = "return"
    /\ retry' = [retry EXCEPT !.ret = failed_count(metadata_df), !.pc = "returned"]
    /\ op' = "retry_return"
    /\ UNCHANGED <<LedgerAndFiles, NotRetry>>

\* main: failed_count = retry_failed_downloads(...); sys.exit(1 or 0)
MainExit ==
    /\ retry.pc = "returned"
    /\ retry' = [retry EXCEPT !.exit_code = exit_status(retry.ret), !.pc = "exited"]
    /\ op' = "exit"
    /\ UNCHANGED <<LedgerAndFiles, NotRetry>>

NextRetry ==
    \/ RetryPass
    \/ RetryLoopEnd
    \/ RetryEntry
    \/ RetryVariation
    \/ RetryVariationsEnd
    \/ RetryPassEnd
    \/ RetryReturn
    \/ MainExit

\* the process runs on until it exits: nothing suspends main between two statements
SpecRetry == InitRetry /\ [][NextRetry]_vars /\ WF_vars(NextRetry)

-----------------------------------------------------------------------------
(* Claims on retry_failed_downloads and the exit of main, under SpecRetry *)

\* the call of retry_failed_downloads began with no 'failed' entry in the ledger
CalledWithoutFailed == retry.pc # "idle" /\ failed_count(retry.df0) = 0

\* C18: retry_failed_downloads called when the ledger holds no 'failed' entry returns
\* 0 at once, for every max_retries: no pass goes beyond its first test, no network
\* call is made, the catalog is not read, and the ledger in memory and on disk stays
\* as it was at the call.
C18_NothingToRetry ==
    CalledWithoutFailed =>
        /\ retry.pc \in {"while", "return", "returned", "exited"}
        /\ retry.retry_count <= 1
        /\ retry.calls = 0
        /\ retry.reads = 0
        /\ metadata_df = retry.df0
        /\ metadata_file = to_csv(retry.df0, NoFile, "ok")
        /\ retry.pc \in {"returned", "exited"} => retry.ret = 0

C18_Witness ==
    /\ CalledWithoutFailed
    /\ retry.pc = "returned"
    /\ retry.max_retries = MaxPasses
    /\ retry.retry_count = 1
    /\ Len(metadata_df) > 0

\* retry_failed_downloads has returned to main
Returned == retry.pc \in {"returned", "exited"}

\* what holds of the passes in every state of a call
PassesBounded ==
    /\ retry.retry_count <= retry.max_retries
    /\ retry.pc \in {"entry", "variation"} => retry.failed_entries # <<>>
    /\ (retry.pc = "while" /\ retry.retry_count > 0) => failed_count(metadata_df) > 0
    /\ Returned => retry.ret = failed_count(metadata_df)
    /\ (Returned /\ retry.ret > 0) => retry.retry_count = retry.max_retries

\* C19: retry_failed_downloads(max_retries) starts at most max_retries passes, goes
\* beyond the first test of a pass only while a 'failed' entry remains, returns before
\* max_retries passes only when none remains, returns the number of 'failed' entries
\* the ledger holds at that moment, and every call comes to an end (a return followed
\* by the exit of main, or an exception that leaves the function), also when failed
\* entries match no catalog row and when max_retries is 0.
C19_BoundedPassesAndTermination ==
    /\ [](retry.pc # "idle" => PassesBounded)
    /\ <>(retry.pc \in {"exited", "crashed"})

C19_Witness ==
    /\ retry.pc = "returned"
    /\ retry.max_retries = MaxPasses
    /\ retry.retry_count = MaxPasses
    /\ retry.ret = 1
    /\ matching_rows(catalog, failed_rows(metadata_df)[1]) = <<>>

\* main has left: by sys.exit after the return, or by the exception that left
\* retry_failed_downloads
Exited == retry.pc \in {"exited", "crashed"}

\* C20: when main of download.py has left after process_all and the retry passes, its
\* exit code is non-zero if and only if the ledger holds at least one entry with
\* status 'failed'.
C20_ExitCodeReportsFailed ==
    Exited => (retry.exit_code # 0 <=> failed_count(metadata_df) > 0)

C20_Witness ==
    /\ retry.pc = "exited"
    /\ retry.exit_code = 1
    /\ failed_count(retry.df0) = 2
    /\ failed_count(metadata_df) = 1

-----------------------------------------------------------------------------
(* Specification SpecCleanup: one call of process_all of a batch downloader from its
   first statement on, podcast_batch_downloader.py (prog "batch") or
   podcast_downloader.py (prog "simple"), with the temp directory *)

\* the characters clean_string of podcast_downloader.py removes
InvalidChars == {"<", ">", ":", "\"", "/", "\\", "|", "?", "*", "'", ","}

\* clean_string of podcast_downloader.py, for a text
simple_clean_string(text) ==
    IF strip(text) = <<>>
    THEN Unknown
    ELSE Map(str_lower_char,
             strip_underscores(
                 Map(LAMBDA c : IF c = " " THEN "_" ELSE c,
                     SelectSeq(text, LAMBDA c : c \notin InvalidChars))))

\* clean_string of podcast_downloader.py raises for a value that is no text:
\* a float has no replace()
simple_filename_raises(row) == isna(row.Candidate_name) \/ isna(row.Podcast_title)

\* format_filename of podcast_downloader.py with '.mp3'
simple_filename(row, t) ==
    ApplePodcasts \o <<"_">> \o simple_clean_string(row.Candidate_name) \o <<"_">>
        \o simple_clean_string(row.Podcast_title) \o <<"_">>
        \o batch_date_clean(row.Date_posted, t) \o Mp3

RowApple == [RowA EXCEPT !.Hyperlink = AppleUrl]
RowAppleNoShow == [RowC EXCEPT !.Hyperlink = AppleUrl]

CleanupCatalogs ==
    {<<RowA, RowB>>, <<RowApple, RowC>>, <<RowAppleNoShow, RowApple>>, <<RowApple, RowF>>,
     <<RowD, RowApple>>}

\* main has built the downloader; the temp directory is the one tempfile.mkdtemp()
\* made, or a path given with --temp that may not exist yet
InitCleanup ==
    /\ prog \in {"batch", "simple"}
    /\ catalog \in CleanupCatalogs
    /\ temp_dir \in BOOLEAN
    /\ NoScripts
    /\ files \in PriorFiles(batch_filename(catalog[1], 0))
    /\ pc = "start" /\ run = 1 /\ rowIdx = 1
    /\ cur = NoCur /\ rowlog = NoLog
    /\ metadata_df = <<>>
    /\ metadata_file = NoFile
    /\ clock = 0
    /\ op = "init"
    /\ lastUpsert = NoCall
    /\ results = <<>>
    /\ existing_files = IF prog = "batch" THEN get_existing_files(files) ELSE {}
    /\ status_file = NoStatusFile
    /\ temp_files = {}
    /\ resolver = NoRes /\ retry = NoRetry

\* what the steps of podcast_downloader.py leave alone
NotSimple ==
    <<metadata_file, clock, lastUpsert, catalog, run, cur, rowlog, results,
      existing_files, status_file, procVars>>

\* pd.read_csv(self.master_csv) succeeds; os.makedirs(self.temp_dir, exist_ok=True)
CatalogRead ==
    /\ prog \in {"batch", "simple"}
    /\ pc = "start"
    /\ pc' = "row"
    /\ temp_dir' = TRUE
    /\ op' = "read_csv"
    /\ UNCHANGED <<NotBatch, clock, catalog, files, run, rowIdx, cur, rowlog,
                   batchVars, procVars>>

\* podcast_batch_downloader.py: pd.read_csv raises, the except clause logs
\* 'Error processing master.csv', then the finally clause
BatchCatalogError ==
    /\ prog = "batch"
    /\ pc = "start"
    /\ BatchFinally
    /\ op' = "catalog_error"
    /\ UNCHANGED <<NotBatch, clock, catalog, files, run, rowIdx, cur, rowlog,
                   results, existing_files, procVars>>

\* the finally clause of process_all of podcast_downloader.py:
\* shutil.rmtree(self.temp_dir, ignore_errors=True)
SimpleFinally ==
    /\ temp_files' = {}
    /\ temp_dir' = FALSE
    /\ pc' = "done"

\* podcast_downloader.py: pd.read_csv raises, the except clause logs, then finally
SimpleCatalogError ==
    /\ prog = "simple"
    /\ pc = "start"
    /\ SimpleFinally
    /\ op' = "catalog_error"
    /\ UNCHANGED <<NotSimple, metadata_df, files, rowIdx>>

SimpleAtRow == prog = "simple" /\ pc = "row" /\ rowIdx <= Len(catalog)

\* podcast_downloader.py, a row without hyperlink: continue
SimpleSkipRow ==
    /\ SimpleAtRow
    /\ \E h \in {catalog[rowIdx].Hyperlink} : h # Number /\ (isna(h) \/ strip(h) = <<>>)
    /\ rowIdx' = rowIdx + 1
    /\ op' = "skip"
    /\ UNCHANGED <<NotSimple, metadata_df, files, pc, temp_files, temp_dir>>

\* podcast_downloader.py, a hyperlink that is a number: row['Hyperlink'].strip()
\* raises in the loop itself, the except clause of process_all ends the loop, then
\* finally
SimpleLoopRaises ==
    /\ SimpleAtRow
    /\ catalog[rowIdx].Hyperlink = Number
    /\ SimpleFinally
    /\ op' = "loop_error"
    /\ UNCHANGED <<NotSimple, metadata_df, files, rowIdx>>

\* what _download_episode of podcast_downloader.py can come to for a row
simple_outcomes(row) ==
    IF ~IsAppleUrl(row.Hyperlink) THEN {"invalid_url"}
    ELSE IF simple_filename_raises(row) THEN {"no_audio", "filename_error"}
    ELSE {"no_audio", "request_failed", "stream_error", "success"}

\* podcast_downloader.py, _download_episode(row): every exception is caught and the
\* row ends with False; a stream that breaks leaves its temp file, a complete one is
\* moved to the output directory
SimpleRow ==
    /\ SimpleAtRow
    /\ \E row \in {catalog[rowIdx]} :
        /\ row.Hyperlink # Number /\ ~isna(row.Hyperlink) /\ strip(row.Hyperlink) # <<>>
        /\ \E o \in simple_outcomes(row) :
            /\ op' = o
            /\ IF o = "stream_error"
               THEN /\ \E w \in 0..(NChunks - 1) :
                        temp_files' = temp_files \cup
                            {[name |-> simple_filename(row, clock),
                              src |-> Some(<<CdnUrl(row.Hyperlink)>>), written |-> w]}
                    /\ files' = files
               ELSE IF o = "success"
               THEN /\ files' = {f \in files : f.name # simple_filename(row, clock)} \cup
                            {[name |-> simple_filename(row, clock),
                              src |-> Some(<<CdnUrl(row.Hyperlink)>>),
                              written |-> NChunks]}
                    /\ temp_files' = temp_files
               ELSE UNCHANGED <<files, temp_files>>
    /\ rowIdx' = rowIdx + 1
    /\ UNCHANGED <<metadata_df, metadata_file, clock, lastUpsert, catalog, run, cur,
                   rowlog, results, existing_files, status_file, procVars, pc, temp_dir>>

\* podcast_downloader.py: the loop over the catalog ends, then finally
SimpleEndRun ==
    /\ prog = "simple"
    /\ pc = "row"
    /\ rowIdx > Len(catalog)
    /\ SimpleFinally
    /\ op' = "end"
    /\ UNCHANGED <<NotSimple, metadata_df, files, rowIdx>>

NextCleanup ==
    \/ CatalogRead \/ BatchCatalogError \/ SimpleCatalogError
    \/ BatchSkipRow \/ AlreadyDownloaded \/ MissingUrl \/ SearchMiss
    \/ BatchRequestFails \/ BatchStartStream \/ BatchWriteChunk \/ BatchStreamError
    \/ BatchFinish \/ BatchEndRun \/ BatchCtrlC
    \/ SimpleSkipRow \/ SimpleLoopRaises \/ SimpleRow \/ SimpleEndRun

SpecCleanup == InitCleanup /\ [][NextCleanup]_vars

\* process_all has ended, by returning or by raising
ProcessAllEnded == prog \in {"batch", "simple"} /\ pc \in {"done", "raised"}

\* C21: when process_all of a batch downloader has ended - it returned or it raised,
\* after all rows succeeded, some row failed, the catalog could not be read or the
\* status file could not be saved - the temp directory does not exist.
C21_TempDirRemoved == ProcessAllEnded => ~temp_dir

-----------------------------------------------------------------------------
(* Specification SpecMain: main of download.py when pd.read_csv(self.master_csv) of
   process_all raises, the catalog file being missing or unreadable *)

\* main has built the downloader, whose ledger is the one an earlier run left on disk,
\* and calls process_all
InitMain ==
    /\ prog = "download"
    /\ \E st \in RetryStarts, n \in 0..MaxPasses, master_csv \in {"missing", "present"} :
        /\ catalog = st.cat
        /\ metadata_file = to_csv(st.df, NoFile, "ok")
        /\ metadata_df = load_existing_metadata(metadata_file)
        /\ retry = [max_retries |-> n, retry_count |-> 0, pc |-> "process_all",
                    failed_entries |-> <<>>, k |-> 0, row |-> RowA, v |-> 0,
                    all_variations |-> [i \in 1..Len(st.cat) |->
                                          episode_variations(st.cat[i])],
                    mp3_paths |-> [i \in 1..Len(st.cat) |-> mp3_path(st.cat[i], 0)],
                    mp3_path |-> <<>>, variations |-> <<>>,
                    calls |-> 0, reads |-> 0, ret |-> 0, exit_code |-> 0,
                    df0 |-> load_existing_metadata(metadata_file),
                    master_csv |-> master_csv,
                    tried |-> <<>>, outcome |-> "none"]
    /\ files = {} /\ pc = "retry" /\ run = 1 /\ rowIdx = 0
    /\ cur = NoCur /\ rowlog = NoLog
    /\ clock = 0
    /\ op = "init"
    /\ lastUpsert = NoCall
    /\ results = <<>> /\ existing_files = {}
    /\ status_file = NoStatusFile /\ temp_files = {}
    /\ resolver = NoRes
    /\ temp_dir = FALSE
    /\ NoScripts

\* process_all: pd.read_csv raises before the loop, the except clause of process_all
\* logs 'Process error' and process_all returns to main
ProcessAllCatalogError ==
    /\ retry.pc = "process_all"
    /\ "raise" \in read_csv_outcomes(retry.master_csv)
    /\ retry' = [retry EXCEPT !.pc = "while", !.reads = @ + 1]
    /\ op' = "process_error"
    /\ UNCHANGED <<LedgerAndFiles, NotRetry>>

NextMain == ProcessAllCatalogError \/ NextRetry

SpecMain == InitMain /\ [][NextMain]_vars

\* C22: a run of download.py whose catalog could not be read does not end reporting
\* success: the process ends with a non-zero exit code.
C22_MissingCatalogIsFatal ==
    (prog = "download" /\ retry.pc # "idle" /\ Exited) => retry.exit_code # 0

-----------------------------------------------------------------------------
(* The order of the steps of one row, under SpecDrivers *)

\* a row of the catalog is being handled
HandlingRow == pc \in {"row", "stream"} /\ rowIdx <= Len(catalog)

\* the step upserts the row at hand: update_metadata in download.py, add_result in
\* podcast_batch_downloader.py
RowUpsert ==
    IF prog = "download"
    THEN metadata_df' # metadata_df \/ metadata_file' # metadata_file
            \/ lastUpsert' # lastUpsert
    ELSE results' # results

\* the step fetches a page, requests the audio or writes to a file of the row at hand
RowEffect == files' # files \/ temp_files' # temp_files \/ rowlog' # rowlog

\* the ledger of this run has an entry of the row
Upserted(row) ==
    IF prog = "download"
    THEN RowsOf(metadata_df, row) # {}
    ELSE \E i \in 1..Len(results) :
            /\ results[i].episode_title = row.Episode_title
            /\ results[i].podcast_title = row.Podcast_title

\* the file the step opens for the download of the row at hand
Opened == {f \in files' \cup temp_files' : f.name = cur'.path /\ f.written = 0}

\* C23: within the handling of one row, the audio download starts only after the
\* resolution has returned a URL, which is the one requested; and the upsert of the
\* row is its last effect: the step that upserts ends the handling of the row, and
\* no step fetches, requests or writes for a row that this run has upserted already.
C23_RowStepsOrdered ==
    [][HandlingRow =>
        /\ (pc = "row" /\ pc' = "stream") =>
              /\ rowlog'.resolved
              /\ cur'.audio_url # None
              /\ Opened # {}
              /\ \A f \in Opened : f.src = cur'.audio_url
        /\ RowUpsert => (pc' = "row" /\ rowIdx' = rowIdx + 1 /\ cur' = NoCur)
        /\ RowEffect => ~Upserted(catalog[rowIdx])]_vars

C23_Witness ==
    /\ prog = "download"
    /\ op = "downloaded"
    /\ rowlog.resolved /\ rowlog.requested
    /\ Upserted(catalog[rowlog.idx])
    /\ rowIdx = rowlog.idx + 1

-----------------------------------------------------------------------------
(* The delays and the search terms of get_audio_url_with_retries, under SpecResolver *)

\* the step ends attempt number resolver.attempt of get_audio_url_with_retries
AttemptEnds ==
    /\ prog = "download"
    /\ resolver'.attempt = resolver.attempt + 1
    /\ resolver'.retries = resolver.retries
    /\ resolver'.pc = "fetch"

\* the outcomes of the requests of the attempt that the step ends: of its fetch of
\* the page and of the last request it made
PageOutcomeOfAttempt ==
    LET cs == resolver'.calls
        ps == {i \in 1..Len(cs) : cs[i].kind = "page"}
    IN  cs[CHOOSE i \in ps : \A j \in ps : j <= i].outcome
LastOutcomeOfAttempt == resolver'.calls[Len(resolver'.calls)].outcome

\* the attempt fetched the page without an error of the transport and found no
\* candidate, and its search, if it made one, found nothing either
OrdinaryMiss ==
    /\ PageOutcomeOfAttempt \in {"non200", "no_audio"}
    /\ LastOutcomeOfAttempt \in {"non200", "no_audio", "no_results"}

\* the last request of the attempt raised
TransportError == LastOutcomeOfAttempt = "raise"

\* the step sleeps d seconds, once
Slept(d) == resolver'.sleeps = Append(resolver.sleeps, d)

\* C29: after attempt k that ended in an ordinary miss the resolver sleeps 1 + k
\* seconds, after attempt k that ended in an error of the transport it sleeps 2^k
\* seconds, and it sleeps 2^k seconds (where that differs from 1 + k) only then.
C29_DelayPolicy ==
    [][AttemptEnds =>
        /\ OrdinaryMiss => Slept(1 + resolver.attempt)
        /\ TransportError => Slept(backoff_delay(resolver.attempt))
        /\ (Slept(backoff_delay(resolver.attempt))
              /\ backoff_delay(resolver.attempt) # 1 + resolver.attempt)
           => TransportError]_vars

\* the step sends a search request of get_audio_url_with_retries
SearchSent ==
    /\ prog = "download"
    /\ Len(resolver'.calls) = Len(resolver.calls) + 1
    /\ resolver'.calls[Len(resolver'.calls)].kind = "search"

\* the words of the normalized title without the last k of them
title_without_last(episode_title, k) ==
    LET ws == split(clean_string(episode_title))
    IN  join(SubSeq(ws, 1, IF Len(ws) > k THEN Len(ws) - k ELSE 0))

\* C30: the search term of attempt k is the normalized episode title without its
\* last k words, the whole normalized title for k = 0, and never the empty string.
C30_QueryRelaxation ==
    [][SearchSent =>
        /\ resolver'.calls[Len(resolver'.calls)].target
              = title_without_last(resolver.title, resolver.attempt)
        /\ resolver'.calls[Len(resolver'.calls)].target # <<>>]_vars

-----------------------------------------------------------------------------
(* Specification SpecIdentity: update_metadata calls for references to one episode
   that are written in different ways, with restarts of the process in between *)

\* RowA in capitals, and RowA with more white space and punctuation
RowA_capitals == [RowA EXCEPT !.Episode_title = <<"E","P"," ","1">>,
                              !.Podcast_title = <<"P","O","D">>]
RowA_spaced == [RowA EXCEPT !.Episode_title = <<"E","p"," "," ","1","!">>,
                            !.Candidate_name = <<"A","l",".">>]

IdentityRows == {RowA, RowA_capitals, RowA_spaced}

InitIdentity ==
    /\ catalog = <<>> /\ files = {} /\ pc = "idle" /\ run = 1 /\ rowIdx = 0
    /\ cur = NoCur /\ rowlog = NoLog
    /\ metadata_df = <<>>
    /\ metadata_file = NoFile
    /\ clock = 0
    /\ op = "init"
    /\ lastUpsert = NoCall
    /\ results = <<>> /\ existing_files = {}
    /\ status_file = NoStatusFile /\ temp_files = {}
    /\ prog = "identity" /\ resolver = NoRes /\ retry = NoRetry
    /\ temp_dir = FALSE
    /\ NoScripts

\* one call of update_metadata for one of the references
UpsertReference ==
    /\ prog = "identity"
    /\ \E row \in IdentityRows, shape \in CallShapes, t \in clock..MaxClock :
        \E a \in {CallArgs(shape, row, clock)} :
          \E df2 \in {update_metadata(metadata_df, row, a.metadata, a.download_path,
                                      a.status, a.error_message, t)} :
            /\ Len(df2) <= MaxLedger
            /\ metadata_df' = df2
            /\ metadata_file' = to_csv(df2, metadata_file, "ok")
            /\ clock' = t
            /\ op' = "upsert"
            /\ lastUpsert' = [row |-> row, metadata |-> a.metadata,
                              download_path |-> a.download_path, status |-> a.status,
                              error_message |-> a.error_message]
            /\ UNCHANGED <<pipeVars, batchVars, callVars>>

NextIdentity == UpsertReference \/ Restart

SpecIdentity == InitIdentity /\ [][NextIdentity]_vars

\* two ledger rows name the same episode when their candidate, show and episode
\* titles are equal up to letter case, white space and punctuation
SameReference(r1, r2) ==
    /\ clean_string(r1.candidate_name) = clean_string(r2.candidate_name)
    /\ clean_string(r1.podcast_title) = clean_string(r2.podcast_title)
    /\ clean_string(r1.episode_title) = clean_string(r2.episode_title)

\* C28: references that differ only in letter case, white space or punctuation
\* address one ledger entry: the ledger never holds two rows of the same reference.
C28_OneEntryPerReference ==
    \A i, j \in 1..Len(metadata_df) :
        SameReference(metadata_df[i], metadata_df[j]) => i = j

-----------------------------------------------------------------------------
(* Specification SpecDates: format_filename of download.py and of
   podcast_batch_downloader.py, called for a row with any of the dates below *)

Year_2024 == <<"2","0","2","4">>

MonthTexts == {<<"3">>, <<"0","3">>, <<"1","1">>, <<"1","3">>}
DayTexts == {<<"5">>, <<"0","5">>, <<"3","1">>, <<" ","5">>}
YearTexts == {Year_2024, <<"2","4">>}

\* dates with slashes, dates without, and values that are no date at all
DateInputs ==
    {m \o <<"/">> \o d \o <<"/">> \o y : m \in MonthTexts, d \in DayTexts, y \in YearTexts}
    \cup {Year_2024 \o m \o d : m \in MonthTexts, d \in DayTexts}
    \cup {NaN, <<>>, <<"n","o","t","-","a","-","d","a","t","e">>, Number}

\* the row of _download_episode and process_all has been read, the name is not built yet
InitDates ==
    /\ prog \in {"download", "batch"}
    /\ \E d \in DateInputs : catalog = <<[RowA EXCEPT !.Date_posted = d]>>
    /\ clock \in 0..MaxClock
    /\ pc = "row" /\ rowIdx = 1 /\ run = 1
    /\ files = {} /\ cur = NoCur /\ rowlog = NoLog
    /\ metadata_df = <<>>
    /\ metadata_file = NoFile
    /\ op = "init"
    /\ lastUpsert = NoCall
    /\ results = <<>> /\ existing_files = {}
    /\ status_file = NoStatusFile /\ temp_files = {}
    /\ resolver = NoRes /\ retry = NoRetry
    /\ temp_dir = FALSE
    /\ NoScripts

\* filename = format_filename('applepodcasts', row[...], ...) and the path made of it
FormatFilename ==
    /\ pc = "row"
    /\ cur.path = <<>>
    /\ cur' = [cur EXCEPT !.path = IF prog = "download"
                                   THEN mp3_path(catalog[rowIdx], clock)
                                   ELSE batch_filename(catalog[rowIdx], clock)]
    /\ op' = "format_filename"
    /\ pc' = "named"
    /\ UNCHANGED <<metadata_df, metadata_file, clock, lastUpsert, catalog, files, run,
                   rowIdx, rowlog, batchVars, callVars>>

\* the next row is read
NextDate ==
    /\ pc = "named"
    /\ pc' = "row"
    /\ cur' = NoCur
    /\ \E d \in DateInputs : catalog' = <<[RowA EXCEPT !.Date_posted = d]>>
    /\ op' = "next_row"
    /\ UNCHANGED <<metadata_df, metadata_file, clock, lastUpsert, files, run,
                   rowIdx, rowlog, batchVars, callVars>>

NextDates == FormatFilename \/ NextDate

SpecDates == InitDates /\ [][NextDates]_vars

\* the date segment of a path: what stands between the last underscore and '.mp3'
date_segment(path) ==
    LET us == {i \in 1..Len(path) : path[i] = "_"}
    IN  SubSeq(path, (CHOOSE i \in us : \A j \in us : j <= i) + 1, Len(path) - 1)

\* the fields of a text with two slashes, or <<>>
slash_fields(s) ==
    LET sl == {i \in 1..Len(s) : s[i] = "/"}
    IN  IF Cardinality(sl) # 2 THEN <<>>
        ELSE LET a == Min(sl)
                 b == CHOOSE i \in sl : i # a
             IN  <<SubSeq(s, 1, a - 1), SubSeq(s, a + 1, b - 1), SubSeq(s, b + 1, Len(s))>>

\* month ms and day ds, of one or two digits, name a day of the four-digit year ys
ValidFields(ys, ms, ds) ==
    /\ Len(ys) = 4 /\ Len(ms) \in 1..2 /\ Len(ds) \in 1..2
    /\ AllDigits(ys) /\ AllDigits(ms) /\ AllDigits(ds)
    /\ ToInt(ys) >= 1 /\ ToInt(ms) \in 1..12
    /\ ToInt(ds) \in 1..DaysInMonth(ToInt(ys), ToInt(ms))

pad2(ds) == IF Len(ds) = 1 THEN <<"0">> \o ds ELSE ds

\* the date a text names when it is a valid date written M/D/YYYY or YYYYMMDD, as
\* YYYYMMDD; <<>> for every other value
written_date(s) ==
    IF isna(s) \/ s = Number THEN <<>>
    ELSE IF slash_fields(s) # <<>>
    THEN LET f == slash_fields(s)
         IN  IF ValidFields(f[3], f[1], f[2]) THEN f[3] \o pad2(f[1]) \o pad2(f[2])
             ELSE <<>>
    ELSE IF Len(s) = 8 /\ ValidFields(SubSeq(s, 1, 4), SubSeq(s, 5, 6), SubSeq(s, 7, 8))
    THEN s
    ELSE <<>>

\* C25: format_filename gives a name for every date value; its date segment is
\* YYYYMMDD with month and day padded for every valid date written M/D/YYYY or
\* YYYYMMDD, and the current date of the run for every other value.
C25_DateSegment ==
    pc = "named" =>
        date_segment(cur.path) =
            IF written_date(catalog[1].Date_posted) # <<>>
            THEN written_date(catalog[1].Date_posted)
            ELSE strftime_Ymd(now_date(clock))

-----------------------------------------------------------------------------
(* Specification SpecExtract: the loop of extract_metadata that collects the audio
   URLs of a page. A page is a sequence of tokens: 'https://', host and path parts,
   extensions, quotes and other text *)

MaxPieces == 3    \* a page is made of at most MaxPieces pieces

Https == "https://"
Megaphone == "traffic.megaphone.fm/"
IsQuote(c) == c \in {"\"", "'"}

\* audio_patterns: every pattern is 'https://', then a fixed prefix, then any text
\* without quotes in which the parts of needs occur in this order, then any text
\* without quotes
audio_patterns ==
    << [prefix |-> <<>>, needs |-> <<".mp3">>],
       [prefix |-> <<>>, needs |-> <<"audio", ".m4a">>],
       [prefix |-> <<>>, needs |-> <<".aac">>],
       [prefix |-> <<"dts.podtrac.com/">>, needs |-> <<>>],
       [prefix |-> <<"chrt.fm/track/">>, needs |-> <<>>],
       [prefix |-> <<"pdst.fm/">>, needs |-> <<>>],
       [prefix |-> <<Megaphone>>, needs |-> <<>>],
       [prefix |-> <<"play.podtrac.com/">>, needs |-> <<>>],
       [prefix |-> <<"www.podtrac.com/pts/redirect", ".mp3", "/">>, needs |-> <<>>] >>

\* the maximal stretches of a text without quote
RECURSIVE quote_free_runs(_)
quote_free_runs(s) ==
    LET qs == {i \in 1..Len(s) : IsQuote(s[i])}
    IN  IF s = <<>> THEN <<>>
        ELSE IF qs = {} THEN <<s>>
        ELSE (IF Min(qs) = 1 THEN <<>> ELSE <<SubSeq(s, 1, Min(qs) - 1)>>)
                 \o quote_free_runs(From(s, Min(qs) + 1))

\* the parts of needs occur in s in this order
RECURSIVE contains_in_order(_, _)
contains_in_order(s, needs) ==
    IF needs = <<>> THEN TRUE
    ELSE LET is == {i \in 1..Len(s) : s[i] = Head(needs)}
         IN  is # {} /\ contains_in_order(From(s, Min(is) + 1), Tail(needs))

\* the positions of a stretch without quote where pattern p matches
match_starts(p, stretch) ==
    {i \in 1..Len(stretch) :
        /\ stretch[i] = Https
        /\ Len(stretch) - i >= Len(p.prefix)
        /\ SubSeq(stretch, i + 1, i + Len(p.prefix)) = p.prefix
        /\ contains_in_order(From(stretch, i + 1 + Len(p.prefix)), p.needs)}

\* re.findall(pattern, content): the matches from left to right, without overlap. The
\* last part of every pattern is greedy, so a match runs to the next quote and a
\* stretch without quote holds at most one match
findall(p, content) ==
    FlatMap(LAMBDA stretch :
                IF match_starts(p, stretch) = {} THEN <<>>
                ELSE <<From(stretch, Min(match_starts(p, stretch)))>>,
            quote_free_runs(content))

\* url.split('"')[0].split("'")[0]
cut_at_quote(url) ==
    LET qs == {i \in 1..Len(url) : IsQuote(url[i])}
    IN  IF qs = {} THEN url ELSE SubSeq(url, 1, Min(qs) - 1)

\* a test that takes every match as new
not_seen_always(clean_url, seen_urls) == TRUE

\* clean_url not in seen_urls
not_seen(clean_url, seen_urls) == clean_url \notin seen_urls

\* the loop over the matches of one pattern
RECURSIVE add_matches(_, _)
add_matches(all_audio_urls, matches) ==
    IF matches = <<>> THEN all_audio_urls
    ELSE add_matches(IF not_seen(cut_at_quote(Head(matches)), Range(all_audio_urls))
                     THEN Append(all_audio_urls, cut_at_quote(Head(matches)))
                     ELSE all_audio_urls,
                     Tail(matches))

\* the loop over audio_patterns, from pattern number k on
RECURSIVE collect_audio_urls(_, _, _)
collect_audio_urls(k, content, all_audio_urls) ==
    IF k > Len(audio_patterns) THEN all_audio_urls
    ELSE collect_audio_urls(k + 1, content,
                            add_matches(all_audio_urls, findall(audio_patterns[k], content)))

PagePieces == {<<Https, Megaphone, "ABC123", ".mp3">>, <<Https, "cdn/", "a", ".mp3">>,
               <<Https, "cdn/", "a", ".aac">>, <<Https, Megaphone, "ABC123">>,
               <<Https, "cdn/">>, <<".mp3">>, <<"junk">>, <<"\"">>, <<"'">>}

\* the pages made of at most n pieces
RECURSIVE PagesOf(_)
PagesOf(n) ==
    IF n = 0 THEN {<<>>}
    ELSE PagesOf(n - 1) \cup {page \o piece : page \in PagesOf(n - 1), piece \in PagePieces}

\* extract_metadata is called with the text of a response
InitExtract ==
    /\ prog = "download"
    /\ \E content \in PagesOf(MaxPieces) :
          resolver = [pc |-> "extract", content |-> content, all_audio_urls |-> <<>>]
    /\ retry = NoRetry
    /\ catalog = <<>> /\ files = {} /\ pc = "idle" /\ run = 1 /\ rowIdx = 0
    /\ cur = NoCur /\ rowlog = NoLog
    /\ metadata_df = <<>>
    /\ metadata_file = NoFile
    /\ clock = 0
    /\ op = "init"
    /\ lastUpsert = NoCall
    /\ results = <<>> /\ existing_files = {}
    /\ status_file = NoStatusFile /\ temp_files = {}
    /\ temp_dir = FALSE
    /\ NoScripts

\* lines 106-114 of extract_metadata
CollectAudioUrls ==
    /\ prog = "download"
    /\ resolver.pc = "extract"
    /\ resolver' = [resolver EXCEPT
                      !.pc = "extracted",
                      !.all_audio_urls = collect_audio_urls(1, resolver.content, <<>>)]
    /\ UNCHANGED NotResolver

NextExtract == CollectAudioUrls

SpecExtract == InitExtract /\ [][NextExtract]_vars

\* where on the page a URL is seen first when the patterns are applied in their
\* order: the pattern number and the number of the match among those of the pattern
SeenAt(url, content) ==
    {<<k, n>> \in (1..Len(audio_patterns)) \X (1..Len(quote_free_runs(content))) :
        /\ n <= Len(findall(audio_patterns[k], content))
        /\ findall(audio_patterns[k], content)[n] = url}

Before(a, b) == a[1] < b[1] \/ (a[1] = b[1] /\ a[2] < b[2])

FirstSeenAt(url, content) ==
    CHOOSE a \in SeenAt(url, content) : \A b \in SeenAt(url, content) : a = b \/ Before(a, b)

MegaphonePage == <<Https, Megaphone, "ABC123", ".mp3", "\"", "junk">>

\* C26: the list of candidates holds every URL that a pattern finds on the page
\* once and only once, without a quote in it, in the order in which the URLs are seen
\* first when the patterns are applied in their fixed order; the megaphone URL
\* followed by a quote and junk, which two patterns match, yields one candidate.
C26_CandidatesOnceInOrder ==
    resolver.pc = "extracted" =>
        LET urls == resolver.all_audio_urls
            content == resolver.content
        IN  /\ \A i, j \in 1..Len(urls) : urls[i] = urls[j] => i = j
            /\ \A i \in 1..Len(urls) : \A c \in Range(urls[i]) : ~IsQuote(c)
            /\ \A k \in 1..Len(audio_patterns) :
                  Range(findall(audio_patterns[k], content)) \subseteq Range(urls)
            /\ \A i \in 1..Len(urls) : SeenAt(urls[i], content) # {}
            /\ \A i, j \in 1..Len(urls) :
                  i < j => Before(FirstSeenAt(urls[i], content),
                                  FirstSeenAt(urls[j], content))
            /\ content = MegaphonePage =>
                  urls = <<<<Https, Megaphone, "ABC123", ".mp3">>>>

C26_Witness ==
    /\ resolver.pc = "extracted"
    /\ resolver.content = MegaphonePage
    /\ Len(resolver.all_audio_urls) = 1
    /\ Cardinality(SeenAt(resolver.all_audio_urls[1], resolver.content)) = 2

-----------------------------------------------------------------------------
(* Specification SpecTitles: the calls of generate_filename that one run of
   process_transcripts of update_transcript_titles.py makes *)

MaxNames == 3    \* a run generates at most MaxNames file names

TitleCandidates == {"al", "bo"}
TitlePodcasts == {"pod", "show"}
TitleDates == {"20240305", "20240306"}

\* part_counter = defaultdict(int)
PartKeys == TitleCandidates \X TitlePodcasts

\* process_transcripts is entered
InitTitles ==
    /\ prog = "titles"
    /\ part_counter = [key \in PartKeys |-> 0]
    /\ new_filenames = <<>>
    /\ status_df = <<>> /\ status_lock = None /\ workers = <<>> /\ pending = <<>>
    /\ resolver = NoRes /\ retry = NoRetry
    /\ catalog = <<>> /\ files = {} /\ pc = "idle" /\ run = 1 /\ rowIdx = 0
    /\ cur = NoCur /\ rowlog = NoLog
    /\ metadata_df = <<>>
    /\ metadata_file = NoFile
    /\ clock = 0
    /\ op = "init"
    /\ lastUpsert = NoCall
    /\ results = <<>> /\ existing_files = {}
    /\ status_file = NoStatusFile /\ temp_files = {}
    /\ temp_dir = FALSE

\* f"{source}_{candidate}_{podcast}_{date}"
title_base_name(source, candidate, podcast, date) ==
    <<source, "_", candidate, "_", podcast, "_", date>>

\* generate_filename, with the counter as it is after part_counter[key] += 1
generate_filename(source, candidate, podcast, date, counter) ==
    title_base_name(source, candidate, podcast, date)
        \o (IF counter[<<candidate, podcast>>] > 1
            THEN <<"_part", counter[<<candidate, podcast>>]>> ELSE <<>>)
        \o <<".txt">>

\* one transcript of the loop of process_transcripts that gets a new name
GenerateFilename ==
    /\ prog = "titles"
    /\ Len(new_filenames) < MaxNames
    /\ \E candidate \in TitleCandidates, podcast \in TitlePodcasts, date \in TitleDates :
        /\ part_counter' = [part_counter EXCEPT ![<<candidate, podcast>>] = @ + 1]
        /\ new_filenames' =
              Append(new_filenames,
                     generate_filename("applepodcasts", candidate, podcast, date,
                                       part_counter'))
    /\ op' = "generate_filename"
    /\ UNCHANGED <<metadata_df, metadata_file, clock, lastUpsert, pipeVars, batchVars,
                   prog, resolver, retry, temp_dir,
                   status_df, status_lock, workers, pending>>

NextTitles == GenerateFilename

SpecTitles == InitTitles /\ [][NextTitles]_vars

\* the base of a generated name: source, candidate, show and date
BaseOf(name) == SubSeq(name, 1, 7)

\* the suffix of a generated name: what stands between the base and '.txt'
SuffixOf(name) == SubSeq(name, 8, Len(name) - 1)

\* how many of the first k generated names have the base of the k-th
SameBaseUpTo(k) ==
    Cardinality({i \in 1..k : BaseOf(new_filenames[i]) = BaseOf(new_filenames[k])})

\* C27: a generated name has a _partN suffix exactly when its base (source,
\* candidate, show, date) was produced earlier in the run: the first name of a base
\* has none, the k-th has _partk, and names of different bases do not count.
C27_PartSuffixByBase ==
    \A k \in 1..Len(new_filenames) :
        SuffixOf(new_filenames[k]) =
            IF SameBaseUpTo(k) = 1 THEN <<>> ELSE <<"_part", SameBaseUpTo(k)>>

-----------------------------------------------------------------------------
(* Specification SpecTranscribe: Transcriber.process_all of transcribe.py and of
   podcast_transcriber.py, whose threads call TranscriptionManager.save_status.
   A step is what a thread does between two points where another thread can run.
   In this specification lastUpsert holds, for every file, the status of the last
   call of save_status for it, rowlog the statuses saved for it in this run, files
   the transcripts and temp_files the temporary transcripts on disk *)

MaxWorkers == 2    \* process_all runs with max_workers in 1..MaxWorkers

Mp3Files == {"a.mp3", "b.mp3"}

StatusRow(mp3_file, status) == [mp3_file |-> mp3_file, status |-> status]

\* transcription_status.csv as an earlier run left it
PriorStatus == {<<>>, <<StatusRow("a.mp3", "failed")>>, <<StatusRow("a.mp3", "completed")>>}

\* get_pending_files: the mp3 files without a 'completed' row, in any order of size
PendingLists(df) ==
    LET todo == {f \in Mp3Files : \A i \in 1..Len(df) :
                    ~(df[i].mp3_file = f /\ df[i].status = "completed")}
    IN  {q \in UNION {[1..n -> todo] : n \in 1..Cardinality(todo)} :
            \A i, j \in 1..Len(q) : q[i] = q[j] => i = j}

\* a transcript or a temporary transcript of an audio file, with the number of
\* chunks whose text it holds
Transcript(mp3_file, chunks) == [mp3_file |-> mp3_file, chunks |-> chunks]

\* the temporary transcripts an earlier run that failed can have left behind
LeftTemps(prior) ==
    IF prior # <<>> /\ prior[1].status = "failed"
    THEN {{}, {Transcript(prior[1].mp3_file, 1)}}
    ELSE {{}}

\* the transcripts an earlier run has written: one for every 'completed' row
PriorTranscripts(prior) ==
    {Transcript(prior[i].mp3_file, 1) : i \in {j \in 1..Len(prior) : prior[j].status = "completed"}}

IdleWorker == [pc |-> "idle", file |-> "", status |-> "", idx |-> 0, df |-> <<>>,
               done |-> 0]

\* TranscriptionManager.__init__ with load_status, and process_all up to the submits
InitTranscribe ==
    /\ prog = "transcribe"
    /\ \E prior \in PriorStatus :
        /\ status_df = prior
        /\ status_file = [exists |-> TRUE, rows |-> prior]
        /\ pending \in PendingLists(prior)
        /\ temp_files \in LeftTemps(prior)
        /\ files = PriorTranscripts(prior)
    /\ \E max_workers \in 1..MaxWorkers : workers = [w \in 1..max_workers |-> IdleWorker]
    /\ status_lock = None
    /\ lastUpsert = [f \in Mp3Files |-> "none"]
    /\ part_counter = <<>> /\ new_filenames = <<>>
    /\ resolver = NoRes /\ retry = NoRetry
    /\ catalog = <<>> /\ pc = "idle" /\ run = 1 /\ rowIdx = 0
    /\ cur = NoCur /\ rowlog = [f \in Mp3Files |-> <<>>]
    /\ metadata_df = <<>>
    /\ metadata_file = NoFile
    /\ clock = 0
    /\ op = "init"
    /\ results = <<>> /\ existing_files = {}
    /\ temp_dir = FALSE

\* what a step of a thread leaves alone
NotTranscribe ==
    <<metadata_df, metadata_file, clock, catalog, pc, run, rowIdx, cur, results,
      existing_files, prog, resolver, retry, temp_dir, part_counter, new_filenames>>
Transcripts == <<files, temp_files>>

\* a lock that every thread gets at once
lock_free_always(lock) == TRUE

\* with self.status_lock: the thread goes on when no thread holds the lock
lock_free(lock) == lock = None

\* a thread of the executor takes the next submitted file: process_file up to its
\* call of save_status(..., 'processing')
TakeFile ==
    \E w \in DOMAIN workers :
        /\ workers[w].pc = "idle"
        /\ pending # <<>>
        /\ workers' = [workers EXCEPT ![w].pc = "acquire", ![w].file = Head(pending),
                                      ![w].status = "processing"]
        /\ pending' = Tail(pending)
        /\ lastUpsert' = [lastUpsert EXCEPT ![Head(pending)] = "processing"]
        /\ op' = "take"
        /\ UNCHANGED <<status_df, status_lock, status_file, Transcripts, rowlog,
                       NotTranscribe>>

\* save_status: with self.status_lock
AcquireLock ==
    \E w \in DOMAIN workers :
        /\ workers[w].pc = "acquire"
        /\ lock_free(status_lock)
        /\ status_lock' = Some(w)
        /\ workers' = [workers EXCEPT ![w].pc = "lookup"]
        /\ op' = "acquire"
        /\ UNCHANGED <<status_df, pending, status_file, lastUpsert, Transcripts, rowlog,
                       NotTranscribe>>

\* the index of the first row of a file, 0 without such a row
status_index(df, mp3_file) ==
    IF \E i \in 1..Len(df) : df[i].mp3_file = mp3_file
    THEN Min({i \in 1..Len(df) : df[i].mp3_file = mp3_file})
    ELSE 0

\* save_status: idx = self.status_df.index[...].tolist()
Lookup ==
    \E w \in DOMAIN workers :
        /\ workers[w].pc = "lookup"
        /\ \E idx \in {status_index(status_df, workers[w].file)} :
              workers' = [workers EXCEPT ![w].idx = idx,
                                         ![w].pc = IF idx # 0 THEN "set_row" ELSE "concat"]
        /\ op' = "lookup"
        /\ UNCHANGED <<status_df, status_lock, pending, status_file, lastUpsert, Transcripts, rowlog,
                       NotTranscribe>>

\* save_status: self.status_df.loc[idx[0]] = row, which adds the row when the
\* frame has no such index
SetRow ==
    \E w \in DOMAIN workers :
        /\ workers[w].pc = "set_row"
        /\ status_df' =
              IF workers[w].idx <= Len(status_df)
              THEN [status_df EXCEPT ![workers[w].idx] =
                                        StatusRow(workers[w].file, workers[w].status)]
              ELSE Append(status_df, StatusRow(workers[w].file, workers[w].status))
        /\ workers' = [workers EXCEPT ![w].pc = "save"]
        /\ op' = "set_row"
        /\ UNCHANGED <<status_lock, pending, status_file, lastUpsert, Transcripts, rowlog,
                       NotTranscribe>>

\* save_status: pd.concat([self.status_df, pd.DataFrame([row])]) is evaluated
Concat ==
    \E w \in DOMAIN workers :
        /\ workers[w].pc = "concat"
        /\ workers' = [workers EXCEPT
                         ![w].df = Append(status_df,
                                          StatusRow(workers[w].file, workers[w].status)),
                         ![w].pc = "assign"]
        /\ op' = "concat"
        /\ UNCHANGED <<status_df, status_lock, pending, status_file, lastUpsert, Transcripts, rowlog,
                       NotTranscribe>>

\* save_status: self.status_df = the new frame
Assign ==
    \E w \in DOMAIN workers :
        /\ workers[w].pc = "assign"
        /\ status_df' = workers[w].df
        /\ workers' = [workers EXCEPT ![w].pc = "save", ![w].df = <<>>]
        /\ op' = "assign"
        /\ UNCHANGED <<status_lock, pending, status_file, lastUpsert, Transcripts, rowlog,
                       NotTranscribe>>

\* save_status_file: self.status_df.to_csv(self.status_file, index=False)
SaveStatusFile ==
    \E w \in DOMAIN workers :
        /\ workers[w].pc = "save"
        /\ status_file' = [exists |-> TRUE, rows |-> status_df]
        /\ rowlog' = [rowlog EXCEPT ![workers[w].file] = Append(@, workers[w].status)]
        /\ workers' = [workers EXCEPT ![w].pc = "release"]
        /\ op' = "save"
        /\ UNCHANGED <<status_df, status_lock, pending, lastUpsert, Transcripts,
                       NotTranscribe>>

\* the end of the with block of save_status; after 'processing' the thread goes on
\* to transcribe, after 'completed' or 'failed' process_file is over
ReleaseLock ==
    \E w \in DOMAIN workers :
        /\ workers[w].pc = "release"
        /\ status_lock' = None
        /\ workers' =
              IF workers[w].status = "processing"
              THEN [workers EXCEPT ![w].pc = "work", ![w].idx = 0]
              ELSE [workers EXCEPT ![w] = [IdleWorker EXCEPT !.done = workers[w].done + 1]]
        /\ op' = "release"
        /\ UNCHANGED <<status_df, pending, status_file, lastUpsert, Transcripts, rowlog,
                       NotTranscribe>>

\* the with open(temp_path, 'w') of the chunk loop after k chunks: every chunk
\* rewrites the temporary transcript, and without a chunk it is not touched
write_temp(temps, mp3_file, k) ==
    IF k = 0 THEN temps
    ELSE {t \in temps : t.mp3_file # mp3_file} \cup {Transcript(mp3_file, k)}

\* if os.path.exists(temp_path): shutil.move(temp_path, txt_path)
move_temp(txts, temps, mp3_file) ==
    IF \E t \in temps : t.mp3_file = mp3_file
    THEN {x \in txts : x.mp3_file # mp3_file} \cup {t \in temps : t.mp3_file = mp3_file}
    ELSE txts

\* an except clause that only raises again
after_raise_silent(worker) == [IdleWorker EXCEPT !.done = worker.done + 1]

\* except Exception: save_status(mp3_path, txt_path, 'failed', ...), then raise
after_raise(worker) == [worker EXCEPT !.pc = "acquire", !.status = "failed"]

\* process_file between its two calls of save_status: the audio is split into
\* total_chunks chunks, every chunk is transcribed and the temporary transcript
\* rewritten, the temporary transcript is moved to the transcript path if it is there
\* and 'completed' is saved; or something raises after k chunks and the except clause
\* takes over
Transcribe ==
    \E w \in DOMAIN workers :
        /\ workers[w].pc = "work"
        /\ \E total_chunks \in 0..NChunks, raises \in BOOLEAN :
            \E k \in (IF raises THEN 0..total_chunks ELSE {total_chunks}) :
              \E temps \in {write_temp(temp_files, workers[w].file, k)} :
                IF raises
                THEN /\ temp_files' = temps
                     /\ files' = files
                     /\ workers' = [workers EXCEPT ![w] = after_raise(workers[w])]
                     /\ lastUpsert' = [lastUpsert EXCEPT ![workers[w].file] =
                                          IF workers'[w].pc = "acquire" THEN "failed" ELSE @]
                ELSE /\ files' = move_temp(files, temps, workers[w].file)
                     /\ temp_files' = {t \in temps : t.mp3_file # workers[w].file}
                     /\ workers' = [workers EXCEPT ![w].pc = "acquire",
                                                   ![w].status = "completed"]
                     /\ lastUpsert' = [lastUpsert EXCEPT ![workers[w].file] = "completed"]
        /\ op' = "transcribe"
        /\ UNCHANGED <<status_df, status_lock, pending, status_file, rowlog, NotTranscribe>>

NextTranscribe ==
    \/ TakeFile \/ AcquireLock \/ Lookup \/ SetRow \/ Concat
    \/ Assign \/ SaveStatusFile \/ ReleaseLock \/ Transcribe

SpecTranscribe == InitTranscribe /\ [][NextTranscribe]_vars

\* the thread is between the reading of the ledger and the end of its persisting
InUpsert(w) ==
    workers[w].pc \in {"lookup", "set_row", "concat", "assign", "save", "release"}

\* concurrent.futures.wait(futures) has returned
AllFinished == pending = <<>> /\ \A w \in DOMAIN workers : workers[w].pc = "idle"

RowsOfFile(df, f) == {i \in 1..Len(df) : df[i].mp3_file = f}

\* C24: the upserts of two threads never overlap, and when all threads have
\* finished the ledger, in memory and on disk, holds exactly one row for every file
\* that was upserted, with the status of the last upsert made for it, and at most one
\* row for any file.
C24_NoLostUpsert ==
    /\ \A w1, w2 \in DOMAIN workers : (InUpsert(w1) /\ InUpsert(w2)) => w1 = w2
    /\ AllFinished =>
          /\ status_file.rows = status_df
          /\ \A f \in Mp3Files :
                /\ Cardinality(RowsOfFile(status_df, f)) <= 1
                /\ lastUpsert[f] # "none" =>
                      \E i \in RowsOfFile(status_df, f) :
                          status_df[i].status = lastUpsert[f]

C24_Witness ==
    /\ AllFinished
    /\ Len(workers) = 2
    /\ \A w \in DOMAIN workers : workers[w].done = 1
    /\ Len(status_df) = 2
    /\ status_file.rows = status_df

-----------------------------------------------------------------------------
(* The use of the search results and of the attempts, under SpecResolver *)

\* the attempts of the outer call that have fetched the page of the hyperlink
AttemptsUsed ==
    Cardinality({i \in 1..Len(resolver.calls) :
                    /\ resolver.calls[i].kind = "page"
                    /\ resolver.calls[i].target = resolver.url0})

\* get_audio_url_with_retries has returned None, None for a hyperlink it could fetch
GaveUp ==
    /\ prog = "download"
    /\ resolver.pc = "done"
    /\ resolver.result = NotFound
    /\ ~no_valid_url(resolver.url0)

\* C31: the resolver gives up only when the search results are exhausted and all
\* its attempts are used: NotFound is returned for a hyperlink only after maxAttempts
\* attempts have fetched it.
C31_GivesUpAfterAllAttempts ==
    GaveUp => AttemptsUsed = resolver.retries0

-----------------------------------------------------------------------------
(* Specification SpecSearch: one call of _search_episode of
   podcast_batch_downloader.py with a search response of several results *)

MaxResults == 2    \* the search response has at most MaxResults results

ResultUrls == <<"https://ep1", "https://ep2", "https://ep3">>

\* a result as far as the code looks at it: how its trackName matches the search
\* term, whether it has a trackViewUrl, and what the fetch of that URL gives
ResultKinds ==
    [match : {"none", "exact", "partial"}, has_url : {FALSE}, page : {"no_audio"}]
    \cup [match : {"none", "exact", "partial"}, has_url : {TRUE},
          page : {"audio", "no_audio", "raise"}]

SearchResponses == UNION {[1..n -> ResultKinds] : n \in 0..MaxResults}

\* _search_episode(episode_title, hyperlink) is about to be called
InitSearch ==
    /\ prog = "batch"
    /\ \E hyperlink \in {AppleUrl, <<"https://h1">>}, results0 \in SearchResponses :
          resolver = [pc |-> "direct", hyperlink |-> hyperlink, title |-> Title_One,
                      results |-> results0, i |-> 1, calls |-> <<>>, result |-> <<>>]
    /\ retry = NoRetry
    /\ catalog = <<>> /\ files = {} /\ pc = "idle" /\ run = 1 /\ rowIdx = 0
    /\ cur = NoCur /\ rowlog = NoLog
    /\ metadata_df = <<>>
    /\ metadata_file = NoFile
    /\ clock = 0
    /\ op = "init"
    /\ lastUpsert = NoCall
    /\ results = <<>> /\ existing_files = {}
    /\ status_file = NoStatusFile /\ temp_files = {}
    /\ temp_dir = FALSE
    /\ NoScripts

\* result.get('trackViewUrl') of result number i
track_view_url(i) == <<ResultUrls[i]>>

\* lines 178-182: the direct try for an Apple Podcasts hyperlink
SearchDirect ==
    /\ prog = "batch"
    /\ resolver.pc = "direct"
    /\ IF IsAppleUrl(resolver.hyperlink)
       THEN \E o \in PageOutcomes :
              \E audio_url \in {get_audio_url(resolver.hyperlink, o)} :
                resolver' =
                  [resolver EXCEPT !.calls = Append(@, PageCall(resolver.hyperlink, o)),
                                   !.pc = IF audio_url # None THEN "done" ELSE "request",
                                   !.result = IF audio_url # None
                                              THEN <<Some(resolver.hyperlink), audio_url>>
                                              ELSE @]
       ELSE resolver' = [resolver EXCEPT !.pc = "request"]
    /\ UNCHANGED NotResolver

\* lines 184-192: the request to the iTunes search API
SearchRequest ==
    /\ prog = "batch"
    /\ resolver.pc = "request"
    /\ \E o \in {"raise", "non200", "bad_json", "results"} :
          resolver' =
            [resolver EXCEPT
               !.calls = Append(@, SearchCall(clean_search_term(resolver.title), o)),
               !.pc = IF o = "results" THEN "exact" ELSE "done",
               !.result = IF o = "results" THEN @ ELSE NotFound]
    /\ UNCHANGED NotResolver

\* a first loop that takes every result that contains the term
is_exact_or_contains(match) == match \in {"exact", "partial"}

\* clean_search_term(result.get('trackName', '')) == search_term
is_exact(match) == match = "exact"

\* search_term in clean_search_term(result.get('trackName', ''))
contains_term(match) == match \in {"exact", "partial"}

\* one result of a loop over the results: fetched when it matches and has a URL; the
\* loop, and the call, ends when the fetch gives an audio URL
try_result(r, matches, next_pc) ==
    IF r.i > Len(r.results)
    THEN [r EXCEPT !.i = 1, !.pc = next_pc,
                   !.result = IF next_pc = "done" THEN NotFound ELSE @]
    ELSE IF matches /\ r.results[r.i].has_url
    THEN [r EXCEPT !.calls = Append(@, PageCall(track_view_url(r.i),
                                                r.results[r.i].page)),
                   !.pc = IF r.results[r.i].page = "audio" THEN "done" ELSE @,
                   !.result = IF r.results[r.i].page = "audio"
                              THEN <<Some(track_view_url(r.i)),
                                     get_audio_url(track_view_url(r.i), "audio")>>
                              ELSE @,
                   !.i = @ + 1]
    ELSE [r EXCEPT !.i = @ + 1]

\* lines 194-201: the loop over the results whose trackName equals the term
SearchExact ==
    /\ prog = "batch"
    /\ resolver.pc = "exact"
    /\ resolver' = try_result(resolver,
                              resolver.i <= Len(resolver.results)
                                 /\ is_exact(resolver.results[resolver.i].match),
                              "partial")
    /\ UNCHANGED NotResolver

\* lines 203-210: the loop over the results whose trackName contains the term
SearchPartial ==
    /\ prog = "batch"
    /\ resolver.pc = "partial"
    /\ resolver' = try_result(resolver,
                              resolver.i <= Len(resolver.results)
                                 /\ contains_term(resolver.results[resolver.i].match),
                              "done")
    /\ UNCHANGED NotResolver

NextSearch == SearchDirect \/ SearchRequest \/ SearchExact \/ SearchPartial

SpecSearch == InitSearch /\ [][NextSearch]_vars

\* the results with the given matches whose URL gives an audio URL
WithAudio(matches) ==
    {i \in 1..Len(resolver.results) :
        /\ resolver.results[i].match \in matches
        /\ resolver.results[i].has_url
        /\ resolver.results[i].page = "audio"}

\* _search_episode has returned after looking at the search results
SearchReturned ==
    /\ prog = "batch"
    /\ resolver.pc = "done"
    /\ \E k \in 1..Len(resolver.calls) :
          resolver.calls[k].kind = "search" /\ resolver.calls[k].outcome = "results"

\* C32: when a result whose track name equals the title yields an audio URL, the
\* episode returned is such a result, also when a result that only contains the
\* title stands before it and yields audio; a result that only contains the title
\* is returned only when no result that equals it yields audio.
C32_ExactBeatsSubstring ==
    SearchReturned =>
        IF WithAudio({"exact"}) # {}
        THEN \E i \in WithAudio({"exact"}) : resolver.result[1] = Some(track_view_url(i))
        ELSE IF WithAudio({"partial"}) # {}
        THEN \E i \in WithAudio({"partial"}) : resolver.result[1] = Some(track_view_url(i))
        ELSE resolver.result = NotFound

C32_Witness ==
    /\ SearchReturned
    /\ Len(resolver.results) = 2
    /\ 1 \in WithAudio({"partial"})
    /\ 2 \in WithAudio({"exact"})
    /\ resolver.result[1] = Some(track_view_url(2))

-----------------------------------------------------------------------------
(* The title variations of a retry pass, under SpecRetry *)

\* the step calls the resolver for a variation of the entry at hand
VariationTried == retry.pc = "variation" /\ Len(retry'.tried) = Len(retry.tried) + 1

\* C33: the variations of a failed entry are the full title, the title cut at '|',
\* its first three words and show title + episode title, tried in this order; a
\* variation without audio URL or with a download error is followed by the next
\* one, and a successful download ends the variations of the entry, which is
\* upserted as 'completed'.
C33_VariationsInOrder ==
    [][VariationTried =>
        /\ retry.variations =
              <<retry.row.Episode_title,
                before_pipe(retry.row.Episode_title),
                first_three(retry.row.Episode_title),
                retry.row.Podcast_title \o <<" ">> \o retry.row.Episode_title>>
        /\ retry'.tried = SubSeq(retry.variations, 1, retry.v)
        /\ retry'.outcome \in {"miss", "download_error"} =>
              /\ retry'.pc = "variation" /\ retry'.v = retry.v + 1
              /\ metadata_df' = metadata_df
        /\ retry'.outcome = "downloaded" =>
              /\ retry'.pc = "entry" /\ retry'.k = retry.k + 1
              /\ lastUpsert'.row = retry.row /\ lastUpsert'.status = "completed"
              /\ \E i \in RowsOf(metadata_df', retry.row) :
                    metadata_df'[i].status = "completed"]_vars

C33_Witness ==
    /\ prog = "download"
    /\ retry.pc = "entry"
    /\ retry.outcome = "downloaded"
    /\ Len(retry.tried) = 3
    /\ op = "retry_variation"
    /\ lastUpsert.status = "completed"

-----------------------------------------------------------------------------
(* The cost of one resolution, under SpecResolver *)

\* the positions of the requests of a kind sent to a target so far
CallsTo(kind, target) ==
    {i \in 1..Len(resolver.calls) :
        resolver.calls[i].kind = kind /\ resolver.calls[i].target = target}

\* the positions of the search requests sent so far
Searches == {i \in 1..Len(resolver.calls) : resolver.calls[i].kind = "search"}

\* the call made for the episode URL of a search result is running or has run
Nested == prog = "download" /\ resolver.url # resolver.url0

\* C35: a call of get_audio_url_with_retries with n attempts fetches its page at most
\* n times; the call made on a search hit has exactly one attempt, fetches its page at
\* most once and sends no search and makes no further call, so the calls nest at most
\* two deep and one resolution sends at most 2n HTTP requests.
C35_BoundedResolution ==
    prog = "download" =>
        /\ Cardinality(CallsTo("page", resolver.url0)) <= resolver.retries0
        /\ Cardinality(Searches) <= resolver.retries0
        /\ Len(resolver.calls) <= 2 * resolver.retries0
        /\ Nested =>
              /\ resolver.url = EpisodeUrl
              /\ resolver.retries = 1
              /\ resolver.pc \in {"fetch", "done"}
              /\ Cardinality(CallsTo("page", EpisodeUrl)) <= 1
              /\ \A i \in CallsTo("page", EpisodeUrl) : i = Len(resolver.calls)

C35_Witness ==
    /\ Nested
    /\ resolver.pc = "done"
    /\ resolver.retries0 = MaxAttempts
    /\ Len(resolver.calls) = 2 * resolver.retries0 - 1

-----------------------------------------------------------------------------
(* What a retry pass does to the ledger, under SpecRetry *)

\* the step calls update_metadata or changes the ledger in memory
LedgerStep == lastUpsert' # lastUpsert \/ metadata_df' # metadata_df

\* C38: while retry_failed_downloads runs, no upsert carries the status 'failed',
\* every upsert turns an entry that was 'failed' into 'completed', an entry that is
\* 'completed' stays as it is, no entry is added, and the number of 'failed' entries
\* never grows.
C38_RetryOnlyCompletesFailed ==
    [][/\ Len(metadata_df') = Len(metadata_df)
       /\ failed_count(metadata_df') <= failed_count(metadata_df)
       /\ \A i \in 1..Len(metadata_df) :
             /\ metadata_df[i].status = "completed" => metadata_df'[i] = metadata_df[i]
             /\ metadata_df'[i] # metadata_df[i] =>
                   /\ metadata_df[i].status = "failed"
                   /\ metadata_df'[i].status = "completed"
       /\ LedgerStep =>
             /\ lastUpsert'.status = "completed"
             /\ failed_count(metadata_df') = failed_count(metadata_df) - 1]_vars

C38_Witness ==
    /\ op = "retry_variation"
    /\ retry.outcome = "downloaded"
    /\ retry.retry_count = 2
    /\ Len(metadata_df) = 2
    /\ metadata_df[1].status = "completed" /\ metadata_df[1] = retry.df0[1]
    /\ retry.df0[2].status = "failed" /\ metadata_df[2].status = "completed"

-----------------------------------------------------------------------------
(* 'completed' entries and the files behind them, under SpecPipeline *)

\* the rows of the catalog that process_all handles have pairwise distinct output paths
DistinctPaths ==
    \A i, j \in 1..Len(catalog) :
        (/\ i # j
         /\ ~isna(catalog[i].Episode_title)
         /\ ~isna(catalog[j].Episode_title)) =>
            mp3_path(catalog[i], clock) # mp3_path(catalog[j], clock)

\* the ledger in memory holds a 'completed' entry of the row
CompletedIn(df, row) == \E i \in RowsOf(df, row) : df[i].status = "completed"

\* the output directory holds at the path a file with every chunk of the stream of
\* the episode of the row
FullyDownloaded(row, path) ==
    \E f \in files :
        /\ Some(f.name) = path
        /\ f.written = NChunks
        /\ f.src = Some(<<CdnUrl(row.Hyperlink)>>)

\* C36: with pairwise distinct output paths, an upsert gives the entry of an episode
\* the status 'completed' only when a download of that episode's stream has written
\* every chunk: the file of the episode is there in full at that moment.
C36_CompletedOnlyAfterFullDownload ==
    [][(/\ DistinctPaths
        /\ op' \in {"refresh", "downloaded"}
        /\ ~CompletedIn(metadata_df, lastUpsert'.row)
        /\ CompletedIn(metadata_df', lastUpsert'.row)
        /\ lastUpsert'.status = "completed") =>
            FullyDownloaded(lastUpsert'.row, lastUpsert'.download_path)]_vars

\* C37: in the first run of process_all over an empty output directory, two
\* 'completed' entries of different episode titles never name the same download_path.
C37_NoSharedDownloadPath ==
    run = 1 =>
        \A i, j \in 1..Len(metadata_df) :
            (/\ metadata_df[i].status = "completed"
             /\ metadata_df[j].status = "completed"
             /\ metadata_df[i].episode_title # metadata_df[j].episode_title) =>
                metadata_df[i].download_path # metadata_df[j].download_path

-----------------------------------------------------------------------------
(* The statuses of a file and its transcript, under SpecTranscribe *)

\* the sequences of statuses one run can save for a file
StatusRuns == {<<>>, <<"processing">>, <<"processing", "completed">>,
               <<"processing", "failed">>}

\* process_all has submitted the file and a thread has taken it
Dispatched(f) == lastUpsert[f] # "none"

C39_CompletedHasTranscript ==
    \A i \in 1..Len(status_df) :
        status_df[i].status = "completed" =>
            \E x \in files : x.mp3_file = status_df[i].mp3_file

-----------------------------------------------------------------------------
(* Specification SpecRename: one run of process_transcripts of
   update_transcript_titles.py over the transcripts directory, with a master CSV
   that names none of the files. files is the directory, existing_files the directory
   as it was listed, pending the listing, rowIdx the position of the loop *)

\* a file name as the text pieces between which split('_') and splitext cut it
TranscriptName(source, candidate, podcast, date, part) ==
    <<source, "_", candidate, "_", podcast, "_", date>>
        \o (IF part > 1 THEN <<"_part", part>> ELSE <<>>)
        \o <<".txt">>

DirectoryNames ==
    {TranscriptName("applepodcasts", "al", "pod", "20240305", 1),
     TranscriptName("applepodcasts", "al", "pod", "20240305", 2),
     TranscriptName("spotify", "Al", "pod", "20240306", 1),
     TranscriptName("applepodcasts", "bo", "show", "20240306", 1),
     TranscriptName("applepodcasts", "bo", "show", "nodate", 1),
     <<"notes", ".txt">>,
     <<"applepodcasts", "_", "al", "_", "pod", "_", "20240305", ".mp3">>}

\* a file of the directory: its name and the name under which its content was listed
DirEntry(name) == [name |-> name, src |-> name]

\* filename.endswith('.txt')
ends_with_txt(filename) == filename[Len(filename)] = ".txt"

\* the orders in which os.listdir can give the names of a directory
Listings(names) ==
    {q \in [1..Cardinality(names) -> names] : \A i, j \in DOMAIN q : q[i] = q[j] => i = j}

\* main up to its call of process_transcripts: the .txt files of the directory are
\* listed, and there is at least one
InitRename ==
    /\ prog = "rename"
    /\ \E names \in SUBSET DirectoryNames :
        /\ Cardinality(names) \in 1..MaxNames
        /\ files = {DirEntry(n) : n \in names}
        /\ existing_files = files
        /\ {n \in names : ends_with_txt(n)} # {}
        /\ pending \in Listings({n \in names : ends_with_txt(n)})
    /\ rowIdx = 1
    /\ part_counter = [key \in {"al", "bo"} \X {"pod", "show"} |-> 0]
    /\ new_filenames = <<>>
    /\ pc = "loop"
    /\ status_df = <<>> /\ status_lock = None /\ workers = <<>>
    /\ resolver = NoRes /\ retry = NoRetry
    /\ catalog = <<>> /\ run = 1
    /\ cur = NoCur /\ rowlog = NoLog
    /\ metadata_df = <<>>
    /\ metadata_file = NoFile
    /\ clock = 0
    /\ op = "init"
    /\ lastUpsert = NoCall
    /\ results = <<>>
    /\ status_file = NoStatusFile /\ temp_files = {}
    /\ temp_dir = FALSE

\* what a step of process_transcripts leaves alone
NotRename ==
    <<metadata_df, metadata_file, clock, lastUpsert, catalog, run, cur, rowlog, results, existing_files, status_file,
      temp_files, prog, resolver, retry, temp_dir, status_df, status_lock, workers,
      pending>>

\* remove_extension(filename).split('_'): the underscores stand among the first
\* seven pieces of a name, a part suffix gives one more part
name_parts(filename) ==
    SelectSeq(SubSeq(filename, 1, Min({7, Len(filename) - 1})),
              LAMBDA piece : piece # "_")
        \o (IF Len(filename) > 9 THEN <<SubSeq(filename, 8, Len(filename) - 1)>> ELSE <<>>)

\* the date test of extract_info_from_filename: eight digits that are a date
is_date(piece) == piece \in TitleDates

\* extract_info_from_filename: candidate, show and date of a name with at least four
\* parts, the date None when the fourth part is no date; without four parts all None
extract_info_from_filename(filename) ==
    IF Len(name_parts(filename)) >= 4
    THEN [candidate_name |-> Some(name_parts(filename)[2]),
          podcast_title |-> Some(name_parts(filename)[3]),
          date |-> IF is_date(name_parts(filename)[4])
                   THEN Some(name_parts(filename)[4]) ELSE None]
    ELSE [candidate_name |-> None, podcast_title |-> None, date |-> None]

\* str.lower() of a name part
lower_piece(piece) == IF piece = "Al" THEN "al" ELSE piece

\* the loop is at a file it passes over: no .txt name, no candidate name in it, or
\* no date in it
Passes(filename) ==
    \/ ~ends_with_txt(filename)
    \/ extract_info_from_filename(filename).candidate_name = None
    \/ extract_info_from_filename(filename).date = None

\* the name process_transcripts generates for a file, with the counter as it is
\* after the call of generate_filename
new_filename_of(filename, counter) ==
    generate_filename("applepodcasts",
                      lower_piece(extract_info_from_filename(filename).candidate_name[1]),
                      lower_piece(extract_info_from_filename(filename).podcast_title[1]),
                      extract_info_from_filename(filename).date[1],
                      counter)

\* part_counter[key] += 1 for the key of a file
counted(filename, counter) ==
    [counter EXCEPT ![<<lower_piece(extract_info_from_filename(filename).candidate_name[1]),
                        lower_piece(extract_info_from_filename(filename).podcast_title[1])>>]
                       = @ + 1]

AtTranscript == prog = "rename" /\ pc = "loop" /\ rowIdx <= Len(pending)

\* a file the loop passes over: continue
PassTranscript ==
    /\ AtTranscript
    /\ Passes(pending[rowIdx])
    /\ rowIdx' = rowIdx + 1
    /\ op' = "pass"
    /\ UNCHANGED <<files, pc, part_counter, new_filenames, NotRename>>

\* a file whose generated name is the name it has: no rename
KeepTranscript ==
    /\ AtTranscript
    /\ ~Passes(pending[rowIdx])
    /\ part_counter' = counted(pending[rowIdx], part_counter)
    /\ new_filename_of(pending[rowIdx], part_counter') = pending[rowIdx]
    /\ new_filenames' = Append(new_filenames, pending[rowIdx])
    /\ rowIdx' = rowIdx + 1
    /\ op' = "keep"
    /\ UNCHANGED <<files, pc, NotRename>>

\* os.rename(src, dst) in a directory: the file takes the new name; a file that has
\* that name is replaced (POSIX)
os_rename(dir, src, dst) ==
    {f \in dir : f.name # src /\ f.name # dst}
        \cup {[f EXCEPT !.name = dst] : f \in {g \in dir : g.name = src}}

\* what os.rename does when the new name is taken: it replaces the file (POSIX) or
\* raises FileExistsError (Windows)
RenameOutcomes(dir, dst) ==
    IF \E f \in dir : f.name = dst THEN {"replace", "raise"} ELSE {"rename"}

\* a file whose generated name differs from its name: os.rename(file_path, new_path)
RenameTranscript ==
    /\ AtTranscript
    /\ ~Passes(pending[rowIdx])
    /\ part_counter' = counted(pending[rowIdx], part_counter)
    /\ \E new_filename \in {new_filename_of(pending[rowIdx], part_counter')} :
        /\ new_filename # pending[rowIdx]
        /\ new_filenames' = Append(new_filenames, new_filename)
        /\ \E outcome \in RenameOutcomes(files, new_filename) :
            IF outcome = "raise"
            THEN /\ files' = files
                 /\ pc' = "crashed"
            ELSE /\ files' = os_rename(files, pending[rowIdx], new_filename)
                 /\ pc' = pc
    /\ rowIdx' = rowIdx + 1
    /\ op' = "rename"
    /\ UNCHANGED NotRename

\* the loop over the listing ends: process_transcripts returns
EndTranscripts ==
    /\ prog = "rename" /\ pc = "loop"
    /\ rowIdx > Len(pending)
    /\ pc' = "returned"
    /\ op' = "end_transcripts"
    /\ UNCHANGED <<files, rowIdx, part_counter, new_filenames, NotRename>>

NextRename == PassTranscript \/ KeepTranscript \/ RenameTranscript \/ EndTranscripts

SpecRename == InitRename /\ [][NextRename]_vars

\* the name a rename step gives to its file is the name of another file of the directory
TargetTaken == \E f \in files : f.name = new_filenames'[Len(new_filenames')]

\* C40: process_transcripts destroys no transcript: no rename is aimed at a name that
\* another file of the directory has, the directory holds as many files as it was
\* listed with, and the generated names are pairwise distinct, for every directory
\* and every order of the listing.
C40_NoTranscriptDestroyed ==
    /\ [][op' = "rename" => ~TargetTaken]_vars
    /\ [](/\ Cardinality(files) = Cardinality(existing_files)
          /\ \A i, j \in 1..Len(new_filenames) :
                new_filenames[i] = new_filenames[j] => i = j)

====
